---- MODULE Spec2Model ----
(***************************************************************************)
(* A model of the Walrus WebAssembly front end (src/parser/WASMParser.cpp):*)
(* the two-pass translation of one function body into register-style byte  *)
(* code (WASMBinaryReader) followed by the local-slot allocator            *)
(* (optimizeLocals).  One action per opcode handler; the function body is  *)
(* drawn instruction by instruction during the preprocess pass and         *)
(* replayed during the emit pass.                                          *)
(***************************************************************************)
EXTENDS Integers, Sequences, FiniteSets, TLC

\* ------------------------------------------------------------------ bounds
\* Longest function body (in instructions, final `end` included) per scenario.
MaxBodyLocals == 5
MaxBodyDirect == 12
\* how often one opcode may occur in a body of SpecDirect
DirectTwice == 2
DirectOnce == 1
MaxBodyFusion == 8
MaxBodyBranch == 7
MaxBodyLoop == 8
MaxBodyStack == 8
MaxBodyConst == 6
MaxBodyPool == 17
MaxBodyReuse == 8
MaxBodyClosure == 8
MaxBodyDecl == 3
MaxBodyAdd == 5
MaxSmallDecls == 3
\* How often an opcode occurs in the bodies of SpecReuse.
ReuseTwice == 2
ClosureTwice == 2
ClosureOnce == 1
\* Longest body, and how often an opcode occurs, in the bodies of SpecCall.
MaxBodyCall == 6
CallTwice == 2
CallOnce == 1
\* Longest body, and how often an opcode occurs, in the bodies of SpecRewrite.
MaxBodyRewrite == 6
RewriteTwice == 2
RewriteOnce == 1
\* Longest body, and how often an opcode occurs, in the bodies of SpecTry.
MaxBodyTry == 8
TryTwice == 2
TryOnce == 1
\* Longest body, and how often an opcode occurs, in the bodies of SpecCatch.
MaxBodyCatch == 9
CatchTwice == 2
CatchOnce == 1
\* Longest body, and how often an opcode occurs, in the bodies of SpecWorklist.
MaxBodyWorklist == 9
WorklistThrice == 3
WorklistOnce == 1
\* Longest body, and how often an opcode occurs, in the bodies of SpecShift.
MaxBodyShift == 7
ShiftOnce == 1
\* Longest body, and how often an opcode occurs, in the bodies of SpecFall.
MaxBodyFall == 8
FallTwice == 2
FallOnce == 1
\* The payloads of the constants in the bodies of SpecPool are 1..PoolValues.
PoolValues == 7
\* How often an opcode occurs in the bodies of SpecStack.
StackTwice == 2
StackOnce == 1

\* ------------------------------------------------- constants of the program
\* std::numeric_limits<size_t>::max(); any value above every position and
\* every stack offset of the bounded model behaves identically.
SIZE_MAX == 1000000
\* sizeof(Walrus::I32Eqz); every fixed-size record the model emits has the
\* same size, only the order and equality of byte positions is used.
sizeofByteCode == 16
\* WALRUS_ASSIGN_CONSTANT_ON_STACK_MAX_COUNT
maxConstantData == 6

s_noI32Eqz == SIZE_MAX - sizeofByteCode

NoLocal == SIZE_MAX

\* ------------------------------------------------------------ small helpers
Max(a, b) == IF a >= b THEN a ELSE b

Min(a, b) == IF a <= b THEN a ELSE b

Last(s) == s[Len(s)]

Front(s) == SubSeq(s, 1, Len(s) - 1)

RECURSIVE SumSeq(_)
SumSeq(s) == IF s = <<>> THEN 0 ELSE s[1] + SumSeq(Tail(s))

\* std::numeric_limits<Walrus::ByteCodeStackOffset>::max()
StackOffsetMax == 65535

\* Arithmetic of the uint16_t members m_initialFunctionStackSize and
\* m_functionStackSizeSoFar.
Uint16(x) == x % (StackOffsetMax + 1)

\* size_t subtraction: wraps below zero.
SubSizeT(a, b) == IF a >= b THEN a - b ELSE SIZE_MAX - (b - a - 1)

\* Walrus::valueStackAllocatedSize on a 64-bit build.
valueStackAllocatedSize(type) == IF type = "I64" THEN 8 ELSE 4

RECURSIVE paramStackSize(_)
paramStackSize(types) ==
    IF types = <<>> THEN 0
    ELSE valueStackAllocatedSize(types[1]) + paramStackSize(Tail(types))

\* -------------------------------------------------------------- block types
\* A block signature: Type::Void, a single value kind, or an index into
\* m_functionTypes (IsIndex) with parameter and result kinds.
SigVoid == [isIndex |-> FALSE, ret |-> "Void", param |-> <<>>, result |-> <<>>]

SigI32 == [isIndex |-> FALSE, ret |-> "I32", param |-> <<>>, result |-> <<"I32">>]

SigIndex(p, r) == [isIndex |-> TRUE, ret |-> "Index", param |-> p, result |-> r]

\* ------------------------------------------------------------- instructions
Instr(op, a, sig) == [op |-> op, a |-> a, sig |-> sig]

\* ----------------------------------------------------------- emitted records
\* One byte-code record.  dst/src0/src1 are stack offsets (SIZE_MAX: the
\* record has no such operand), off the relative jump offset, tail the
\* variable-size array of an End record, value the immediate of a constant.
ByteCode(op, dst, src0, src1, off, tail, value) ==
    [op |-> op, dst |-> dst, src0 |-> src0, src1 |-> src1, off |-> off,
     tail |-> tail, value |-> value]

VARIABLES
    fn,              \* the function: [param, result, local] value kinds
    maxBody,         \* longest body the reader is fed
    prog,            \* the instructions read so far (the body, once complete)
    pass,            \* "preprocess", "emit" or "done"
    pc,              \* emit pass: index of the next instruction to read
    vals,            \* validator: operand-type stack
    ctrl,            \* validator: control frames
    m_localInfo,
    m_initialFunctionStackSize,
    m_functionStackSizeSoFar,
    m_requiredStackSize,
    m_vmStack,
    m_blockInfo,
    m_catchInfo,
    m_functionCatchInfo,   \* m_currentFunction->m_catchInfo
    m_hasTryCatch,         \* m_currentFunction->m_hasTryCatch
    byteCode,
    m_lastI32EqzPos,
    m_shouldContinueToGenerateByteCode,
    m_resumeGenerateByteCodeAfterNBlockEnd,
    m_localVariableInfo,
    m_constantData,
    variableRange,   \* optimizeLocals: the entities and their intervals/slots
    outcome          \* "", or how the compilation of the function broke off

vars == <<fn, maxBody, prog, pass, pc, vals, ctrl, m_localInfo,
          m_initialFunctionStackSize, m_functionStackSizeSoFar,
          m_requiredStackSize, m_vmStack, m_blockInfo, m_catchInfo,
          m_functionCatchInfo, m_hasTryCatch, byteCode,
          m_lastI32EqzPos, m_shouldContinueToGenerateByteCode,
          m_resumeGenerateByteCodeAfterNBlockEnd, m_localVariableInfo,
          m_constantData, variableRange, outcome>>

currentByteCodeSize(code) == Len(code) * sizeofByteCode

\* The record at byte position p (peekByteCode).
IndexOf(p) == (p \div sizeofByteCode) + 1

\* ------------------------------------------------------- the reader's state
\* The handlers below are operators on a record e holding the reader object:
\* its members, plus what the decoder hands it (inPreprocess, the reader
\* offset, the instruction that follows, for the one-opcode look-ahead).
VMStackInfo(type, pos, nonOpt, localIndex) ==
    [valueType |-> type, position |-> pos, nonOptimizedPosition |-> nonOpt,
     localIndex |-> localIndex]

UsageInfo(startPosition, pushCount) ==
    [m_startPosition |-> startPosition, m_endPosition |-> SIZE_MAX,
     m_pushCount |-> pushCount, m_hasWriteUsage |-> FALSE]

LocalVariableInfo ==
    [m_needsExplicitInitOnStartup |-> FALSE, m_definitelyWritePlaces |-> <<>>,
     m_writePlacesBetweenBranches |-> <<>>, m_usageInfo |-> <<>>]

LocalInfo(type, pos) == [m_valueType |-> type, m_position |-> pos]

Broken(e, why) == IF e.outcome = "" THEN [e EXCEPT !.outcome = why] ELSE e

\* PreprocessData::seenBranch
seenBranch(e) ==
    IF ~e.inPreprocess THEN e
    ELSE LET n == Len(e.m_blockInfo)
             e1 == IF n > 0 THEN [e EXCEPT !.m_blockInfo[n].m_seenBranch = TRUE]
                   ELSE e
         IN [e1 EXCEPT !.m_localVariableInfo =
                [i \in DOMAIN @ |-> [@[i] EXCEPT !.m_writePlacesBetweenBranches = <<>>]]]

\* PreprocessData::addLocalVariableUsage
addLocalVariableUsage(e, localIndex) ==
    IF ~e.inPreprocess THEN e
    ELSE LET pos == e.offset
             pushCount == Cardinality({i \in 1..Len(e.m_vmStack) :
                              e.m_vmStack[i].localIndex = localIndex})
             info == e.m_localVariableInfo[localIndex + 1]
             writeFound == \E i \in 1..Len(info.m_definitelyWritePlaces) :
                              info.m_definitelyWritePlaces[i] < pos
             needs == \/ info.m_needsExplicitInitOnStartup
                      \/ (info.m_writePlacesBetweenBranches = <<>> /\ ~writeFound)
         IN [e EXCEPT !.m_localVariableInfo[localIndex + 1] =
                [info EXCEPT !.m_usageInfo = Append(@, UsageInfo(pos, pushCount)),
                             !.m_needsExplicitInitOnStartup = needs]]

\* PreprocessData::addLocalVariableWrite
addLocalVariableWrite(e, localIndex) ==
    IF ~e.inPreprocess THEN e
    ELSE LET pos == e.offset
             info == e.m_localVariableInfo[localIndex + 1]
             marked == [i \in DOMAIN info.m_usageInfo |->
                          IF info.m_usageInfo[i].m_startPosition <= pos
                                /\ pos <= info.m_usageInfo[i].m_endPosition
                          THEN [info.m_usageInfo[i] EXCEPT !.m_hasWriteUsage = TRUE]
                          ELSE info.m_usageInfo[i]]
             isDefinitelyWritePlaces ==
                 \A b \in 1..Len(e.m_blockInfo) : ~e.m_blockInfo[b].m_seenBranch
         IN [e EXCEPT !.m_localVariableInfo[localIndex + 1] =
                [info EXCEPT !.m_usageInfo = marked,
                             !.m_definitelyWritePlaces =
                                 IF isDefinitelyWritePlaces THEN Append(@, pos) ELSE @,
                             !.m_writePlacesBetweenBranches = Append(@, pos)]]

\* Sort by descending reference count (std::sort on a.second > b.second); the
\* order among equal counts is the insertion order here.
RECURSIVE organizeConstantData(_)
organizeConstantData(data) ==
    IF data = <<>> THEN <<>>
    ELSE LET best == CHOOSE i \in 1..Len(data) :
                        /\ \A j \in 1..Len(data) : data[j].count <= data[i].count
                        /\ \A j \in 1..(i - 1) : data[j].count < data[i].count
             rest == [j \in 1..(Len(data) - 1) |-> IF j < best THEN data[j] ELSE data[j + 1]]
         IN <<data[best]>> \o organizeConstantData(rest)

addConstantDataUnsorted(e, type, v) ==
    IF ~e.inPreprocess THEN e
    ELSE LET data == e.m_constantData
             found == {i \in 1..Len(data) : data[i].value = v /\ data[i].type = type}
             counted == IF found # {}
                        THEN [data EXCEPT ![CHOOSE i \in found : TRUE].count = @ + 1]
                        ELSE Append(data, [value |-> v, type |-> type, count |-> 1,
                                           position |-> 0])
             kept == IF Len(counted) > maxConstantData
                     THEN SubSeq(counted, 1, Len(counted) - (maxConstantData \div 4))
                     ELSE counted
         IN [e EXCEPT !.m_constantData = kept]

\* PreprocessData::addConstantData
addConstantData(e, type, v) ==
    IF ~e.inPreprocess THEN e
    ELSE LET data == e.m_constantData
             found == {i \in 1..Len(data) : data[i].value = v /\ data[i].type = type}
             counted == IF found # {}
                        THEN [data EXCEPT ![CHOOSE i \in found : TRUE].count = @ + 1]
                        ELSE Append(data, [value |-> v, type |-> type, count |-> 1,
                                           position |-> 0])
             kept == IF Len(counted) > maxConstantData
                     THEN SubSeq(organizeConstantData(counted), 1,
                                 Len(counted) - (maxConstantData \div 4))
                     ELSE counted
         IN [e EXCEPT !.m_constantData = kept]

\* Closes the most recent open usage interval of a local (the loop of
\* popVMStackInfo and of BlockInfo's constructor).
closeUsageInfo(e, localIndex) ==
    LET usage == e.m_localVariableInfo[localIndex + 1].m_usageInfo
        open == {i \in 1..Len(usage) : usage[i].m_endPosition = SIZE_MAX}
    IN IF open = {} THEN Broken(e, "no open usage interval")
       ELSE LET i == CHOOSE k \in open : \A j \in open : j <= k
            IN [e EXCEPT !.m_localVariableInfo[localIndex + 1].m_usageInfo[i].m_endPosition
                            = e.offset]

pushVMStackAtUnrecorded(e, type, pos, localIndex) ==
    LET e1 == IF localIndex # NoLocal THEN addLocalVariableUsage(e, localIndex) ELSE e
    IN [e1 EXCEPT !.m_vmStack = Append(@, VMStackInfo(type, pos,
                                      e.m_functionStackSizeSoFar, localIndex)),
                  !.m_functionStackSizeSoFar =
                      Uint16(@ + valueStackAllocatedSize(type))]

\* pushVMStack(type, pos, localIndex)
pushVMStackAt(e, type, pos, localIndex) ==
    LET e1 == IF localIndex # NoLocal THEN addLocalVariableUsage(e, localIndex) ELSE e
        size == Uint16(e.m_functionStackSizeSoFar + valueStackAllocatedSize(type))
    IN [e1 EXCEPT !.m_vmStack = Append(@, VMStackInfo(type, pos,
                                      e.m_functionStackSizeSoFar, localIndex)),
                  !.m_functionStackSizeSoFar = size,
                  !.m_requiredStackSize = Max(@, size)]

\* pushVMStack(type): the new entry lives at the top of the stack area.
pushVMStack(e, type) == pushVMStackAt(e, type, e.m_functionStackSizeSoFar, NoLocal)

\* peekVMStackInfo; on an empty stack the read is undefined and the caller's
\* pop records that.
peekVMStackInfo(e) ==
    IF e.m_vmStack = <<>> THEN VMStackInfo("I32", 0, 0, NoLocal) ELSE Last(e.m_vmStack)

\* popVMStackInfo (the popped entry is peekVMStackInfo of the state before).
popVMStackInfo(e) ==
    IF e.m_vmStack = <<>> THEN Broken(e, "pop of an empty value stack")
    ELSE LET info == Last(e.m_vmStack)
             e1 == [e EXCEPT !.m_vmStack = Front(@),
                             !.m_functionStackSizeSoFar =
                                 Uint16(@ - valueStackAllocatedSize(info.valueType))]
         IN IF e.inPreprocess /\ info.localIndex # NoLocal
            THEN closeUsageInfo(e1, info.localIndex)
            ELSE e1

RECURSIVE popVMStackN(_, _)
popVMStackN(e, n) == IF n <= 0 THEN e ELSE popVMStackN(popVMStackInfo(e), n - 1)

\* pushByteCode; the I32Eqz overload remembers where the record starts.
pushByteCode(e, code) ==
    [e EXCEPT !.byteCode = Append(@, code),
              !.m_lastI32EqzPos = IF code.op = "I32Eqz"
                                  THEN currentByteCodeSize(e.byteCode) ELSE @]

MoveOp(type) == IF type = "I64" THEN "MoveI64" ELSE "MoveI32"

generateMoveCodeIfNeeds(e, srcPosition, dstPosition, type) ==
    IF srcPosition # dstPosition
    THEN pushByteCode(e, ByteCode(MoveOp(type), dstPosition, srcPosition,
                                  SIZE_MAX, 0, <<>>, 0))
    ELSE e

\* canBeInverted: the last record is the I32Eqz at m_lastI32EqzPos and it
\* writes the offset the branch is about to test.
lastIsI32Eqz(e) == e.m_lastI32EqzPos + sizeofByteCode = currentByteCodeSize(e.byteCode)

canBeInverted(e, stackPos) ==
    /\ lastIsI32Eqz(e)
    /\ e.byteCode[IndexOf(e.m_lastI32EqzPos)].op = "I32Eqz"
    /\ e.byteCode[IndexOf(e.m_lastI32EqzPos)].dst = stackPos

\* readAheadLocalGetIfExists: the next opcode is local.set (0x21).
readAheadLocalGetIfExists(e) == e.next.op = "local.set"

\* ---------------------------------------------------- straight-line handlers
\* A constant that is counted and never served from the pool.
processConstValueFresh(e, type, value) ==
    [addConstantData(e, type, value) EXCEPT !.ret = 0]

\* processConstValue: counts the constant; in the emit pass a retained
\* constant is served from its prelude slot.  ret tells whether it was.
processConstValue(e, type, value) ==
    LET serve(e1) ==
            LET found == {i \in 1..Len(e1.m_constantData) :
                             /\ e1.m_constantData[i].value = value
                             /\ e1.m_constantData[i].type = type}
            IN IF ~e1.inPreprocess /\ found # {}
               THEN [pushVMStackAt(e1, type,
                         e1.m_constantData[CHOOSE i \in found : TRUE].position,
                         NoLocal) EXCEPT !.ret = 1]
               ELSE [e1 EXCEPT !.ret = 0]
    IN IF e.fn.inInitExpr THEN [e EXCEPT !.ret = 0]
       ELSE serve(addConstantData(e, type, value))

computeExprResultPositionKeepingSet(e, type) ==
    IF ~e.inPreprocess /\ readAheadLocalGetIfExists(e)
    THEN [e EXCEPT !.ret = e.m_localInfo[e.next.a + 1].m_position]
    ELSE [pushVMStack(e, type) EXCEPT !.ret = e.m_functionStackSizeSoFar]

\* computeExprResultPosition: the destination of a producer, left in ret.  In
\* the emit pass a following local.set is consumed and its local is the
\* destination.
computeExprResultPosition(e, type) ==
    IF ~e.inPreprocess /\ readAheadLocalGetIfExists(e)
    THEN [e EXCEPT !.skip = TRUE, !.ret = e.m_localInfo[e.next.a + 1].m_position]
    ELSE [pushVMStack(e, type) EXCEPT !.ret = e.m_functionStackSizeSoFar]

ConstOp(type) == IF type = "I64" THEN "Const64" ELSE "Const32"

OnConstExpr(e, type, value) ==
    LET emit(e2) == pushByteCode(e2, ByteCode(ConstOp(type), e2.ret, SIZE_MAX,
                                              SIZE_MAX, 0, <<>>, value))
        produce(e1) == IF e1.ret = 1 THEN e1
                       ELSE emit(computeExprResultPosition(e1, type))
    IN produce(processConstValue(e, type, value))

OnI32ConstExpr(e, value) == OnConstExpr(e, "I32", value)

OnLocalGetExpr(e, localIndex) ==
    LET localPos == e.m_localInfo[localIndex + 1].m_position
        localValueType == e.m_localInfo[localIndex + 1].m_valueType
        usage == e.m_localVariableInfo[localIndex + 1].m_usageInfo
        canUseDirectReference ==
            ~\E i \in 1..Len(usage) :
                /\ usage[i].m_startPosition <= e.offset
                /\ e.offset <= usage[i].m_endPosition
                /\ usage[i].m_hasWriteUsage
        pos == e.m_functionStackSizeSoFar
    IN IF canUseDirectReference
       THEN pushVMStackAt(e, localValueType, localPos, localIndex)
       ELSE generateMoveCodeIfNeeds(pushVMStackAt(e, localValueType, pos, localIndex),
                                    localPos, pos, localValueType)

OnLocalSetExpr(e, localIndex) ==
    LET localPos == e.m_localInfo[localIndex + 1].m_position
        src == peekVMStackInfo(e)
        e1 == popVMStackInfo(e)
    IN addLocalVariableWrite(
           generateMoveCodeIfNeeds(e1, src.position, localPos, src.valueType),
           localIndex)

OnLocalTeeExpr(e, localIndex) ==
    LET valueType == e.m_localInfo[localIndex + 1].m_valueType
        localPos == e.m_localInfo[localIndex + 1].m_position
        dstInfo == peekVMStackInfo(e)
        e1 == IF e.m_vmStack = <<>> THEN Broken(e, "peek of an empty value stack")
              ELSE e
    IN addLocalVariableWrite(
           generateMoveCodeIfNeeds(e1, dstInfo.position, localPos, valueType),
           localIndex)

OnDropExpr(e) == popVMStackInfo(e)

\* Walrus::Call: tail holds the offsets of the arguments and behind them
\* those of the results, off the number of argument offsets.
Call(index, parameterCount, tail) ==
    ByteCode("Call", SIZE_MAX, SIZE_MAX, SIZE_MAX, parameterCount, tail, index)

RECURSIVE pushVMStackKinds(_, _)
pushVMStackKinds(e, types) ==
    IF types = <<>> THEN e
    ELSE pushVMStackKinds(pushVMStack(e, types[1]), Tail(types))

\* OnCallExpr with generateCallExpr; functionType is the type of the callee
\* (kinds of one offset each).
OnCallExpr(e, index, functionType) ==
    LET n == Len(functionType.param)
        r == Len(functionType.result)
        m == Len(e.m_vmStack)
        fill(e2) ==
            pushByteCode(e2,
                Call(index, n,
                     [i \in 1..n |-> e.m_vmStack[m - n + i].position]
                         \o [i \in 1..r |->
                                e2.m_vmStack[Len(e2.m_vmStack) - r + i].position]))
    IN IF n > m THEN Broken(e, "pop of an empty value stack")
       ELSE fill(pushVMStackKinds(popVMStackN(e, n), functionType.result))

OnBinaryExprInPlace(e) ==
    LET emit(e3, src0, src1) ==
            pushByteCode(e3, ByteCode("I32Add", src0, src0, src1, 0, <<>>, 0))
        second(e1, src1) ==
            emit(computeExprResultPosition(popVMStackInfo(e1), "I32"),
                 peekVMStackInfo(e1).position, src1)
    IN second(popVMStackInfo(e), peekVMStackInfo(e).position)

\* OnBinaryExpr for an i32 -> i32 -> i32 operation (i32.add).
OnBinaryExpr(e) ==
    LET emit(e3, src0, src1) ==
            pushByteCode(e3, ByteCode("I32Add", e3.ret, src0, src1, 0, <<>>, 0))
        second(e1, src1) ==
            emit(computeExprResultPosition(popVMStackInfo(e1), "I32"),
                 peekVMStackInfo(e1).position, src1)
    IN second(popVMStackInfo(e), peekVMStackInfo(e).position)

\* OnUnaryExpr for i32.eqz.
OnUnaryExpr(e) ==
    LET emit(e2, src) ==
            pushByteCode(e2, ByteCode("I32Eqz", e2.ret, src, SIZE_MAX, 0, <<>>, 0))
    IN emit(computeExprResultPosition(popVMStackInfo(e), "I32"),
            peekVMStackInfo(e).position)

JumpToEndBrInfoBehind(type, position) ==
    [m_type |-> type, m_position |-> position + sizeofByteCode]

\* ------------------------------------------------------------------- blocks
JumpToEndBrInfo(type, position) == [m_type |-> type, m_position |-> position]

\* The parameter loop of BlockInfo's constructor: the top n entries of the
\* value stack, from the top down, are moved to their canonical slots.
RECURSIVE materializeParams(_, _, _)
materializeParams(e, i, n) ==
    IF n = 0 THEN e
    ELSE IF i < 1 THEN Broken(e, "block parameters below the value stack")
    ELSE LET info == e.m_vmStack[i]
             close(e1) == IF e.inPreprocess /\ info.localIndex # NoLocal
                          THEN closeUsageInfo(e1, info.localIndex)
                          ELSE e1
             moved == [close(generateMoveCodeIfNeeds(e, info.position,
                                 info.nonOptimizedPosition, info.valueType))
                          EXCEPT !.m_vmStack[i] =
                              VMStackInfo(info.valueType, info.nonOptimizedPosition,
                                          info.nonOptimizedPosition, NoLocal)]
         IN materializeParams(IF info.position # info.nonOptimizedPosition
                              THEN moved ELSE e, i - 1, n - 1)

\* BlockInfo::BlockInfo followed by m_blockInfo.push_back; fixups is the
\* fixup list the caller installs before the push (OnIfExpr).
pushBlockInfo(e, blockType, sig, withIfFixup) ==
    LET push(e1) ==
            [e1 EXCEPT !.m_blockInfo = Append(@,
                [m_blockType |-> blockType,
                 m_returnValueType |-> sig,
                 m_position |-> currentByteCodeSize(e1.byteCode),
                 m_vmStack |-> e1.m_vmStack,
                 m_functionStackSizeSoFar |-> e.m_functionStackSizeSoFar,
                 m_shouldRestoreVMStackAtEnd |->
                     ((sig.isIndex /\ sig.result # <<>>) \/ sig.ret # "Void"),
                 m_byteCodeGenerationStopped |-> FALSE,
                 m_seenBranch |-> FALSE,
                 m_jumpToEndBrInfo |->
                     IF withIfFixup
                     THEN <<JumpToEndBrInfo("IsJumpIf", currentByteCodeSize(e1.byteCode))>>
                     ELSE <<>>])]
    IN push(IF sig.isIndex
            THEN materializeParams(e, Len(e.m_vmStack), Len(sig.param))
            ELSE e)

Jump(off) == ByteCode("Jump", SIZE_MAX, SIZE_MAX, SIZE_MAX, off, <<>>, 0)

JumpIfTrue(stackPos, off) ==
    ByteCode("JumpIfTrue", SIZE_MAX, stackPos, SIZE_MAX, off, <<>>, 0)

JumpIfFalse(stackPos, off) ==
    ByteCode("JumpIfFalse", SIZE_MAX, stackPos, SIZE_MAX, off, <<>>, 0)

\* The fusion prologue shared by OnIfExpr and OnBrIfExpr: pops the condition;
\* when the last record is the i32.eqz that produced it, removes that record
\* and tests the eqz's source instead.  ret = 1: inverted; cond: the offset.
popCondition(e) ==
    LET fuse(e1, stackPos) ==
            LET eqz == e1.byteCode[IndexOf(e1.m_lastI32EqzPos)]
            IN IF lastIsI32Eqz(e1) /\ eqz.op # "I32Eqz"
               THEN Broken([e1 EXCEPT !.ret = 0, !.cond = stackPos],
                           "stale i32.eqz position")
               ELSE IF canBeInverted(e1, stackPos)
               THEN [e1 EXCEPT !.byteCode = SubSeq(@, 1, IndexOf(e1.m_lastI32EqzPos) - 1),
                               !.m_lastI32EqzPos = s_noI32Eqz,
                               !.ret = 1, !.cond = eqz.src0]
               ELSE [e1 EXCEPT !.ret = 0, !.cond = stackPos]
    IN fuse(popVMStackInfo(e), peekVMStackInfo(e).position)

OnIfExpr(e, sig) ==
    LET open(e1) ==
            pushByteCode(pushBlockInfo(e1, "IfElse", sig, TRUE),
                         IF e1.ret = 1 THEN JumpIfTrue(e1.cond, 0)
                         ELSE JumpIfFalse(e1.cond, 0))
    IN seenBranch(open(popCondition(e)))

OnLoopExpr(e, sig) == pushBlockInfo(e, "Loop", sig, FALSE)

OnBlockExpr(e, sig) == pushBlockInfo(e, "Block", sig, FALSE)

restoreVMStackByEntries(e, blockInfo) ==
    [popVMStackN(e, Len(e.m_vmStack) - Len(blockInfo.m_vmStack))
        EXCEPT !.m_vmStack = blockInfo.m_vmStack]

restoreVMStackBy(e, blockInfo) ==
    [popVMStackN(e, Len(e.m_vmStack) - Len(blockInfo.m_vmStack))
        EXCEPT !.m_vmStack = blockInfo.m_vmStack,
               !.m_functionStackSizeSoFar = blockInfo.m_functionStackSizeSoFar]

\* One iteration of keepBlockResultsIfNeeds: the top entry is moved to its
\* canonical slot and popped.
RECURSIVE keepResults(_, _)
keepResults(e, n) ==
    IF n = 0 THEN e
    ELSE IF e.m_vmStack = <<>> THEN Broken(e, "pop of an empty value stack")
    ELSE LET info == peekVMStackInfo(e)
         IN keepResults(popVMStackInfo(
                generateMoveCodeIfNeeds(e, info.position, info.nonOptimizedPosition,
                                        info.valueType)), n - 1)

keepBlockResultsIfNeeds(e, blockInfo) ==
    IF blockInfo.m_shouldRestoreVMStackAtEnd /\ ~blockInfo.m_byteCodeGenerationStopped
    THEN keepResults(e, Len(blockInfo.m_returnValueType.result))
    ELSE e

\* setOffset on the record at byte position p.
setOffset(e, p, off) ==
    IF IndexOf(p) \in 1..Len(e.byteCode)
    THEN [e EXCEPT !.byteCode[IndexOf(p)].off = off]
    ELSE Broken(e, "patch outside the byte code")

OnElseExprOntoLastRecord(e) ==
    LET n == Len(e.m_blockInfo)
        blockInfo == e.m_blockInfo[n]
        erased == Tail(blockInfo.m_jumpToEndBrInfo)
        patch(e5) == setOffset(e5, blockInfo.m_position,
                               (Len(e5.byteCode) - 1) * sizeofByteCode - blockInfo.m_position)
        restart(e3) ==
            patch(restoreVMStackBy(
                      [e3 EXCEPT !.m_blockInfo[n].m_byteCodeGenerationStopped = FALSE],
                      blockInfo))
        leave(e2) ==
            restart(IF ~blockInfo.m_byteCodeGenerationStopped
                    THEN pushByteCode(
                             [e2 EXCEPT !.m_blockInfo[n].m_jumpToEndBrInfo =
                                 Append(erased, JumpToEndBrInfo("IsJump",
                                                currentByteCodeSize(e2.byteCode)))],
                             Jump(0))
                    ELSE [e2 EXCEPT !.m_blockInfo[n].m_jumpToEndBrInfo = erased])
    IN leave(keepBlockResultsIfNeeds(seenBranch(e), blockInfo))

OnElseExpr(e) ==
    LET n == Len(e.m_blockInfo)
        blockInfo == e.m_blockInfo[n]
        erased == Tail(blockInfo.m_jumpToEndBrInfo)
        patch(e5) == setOffset(e5, blockInfo.m_position,
                               currentByteCodeSize(e5.byteCode) - blockInfo.m_position)
        restart(e3) ==
            patch(restoreVMStackBy(
                      [e3 EXCEPT !.m_blockInfo[n].m_byteCodeGenerationStopped = FALSE],
                      blockInfo))
        leave(e2) ==
            restart(IF ~blockInfo.m_byteCodeGenerationStopped
                    THEN pushByteCode(
                             [e2 EXCEPT !.m_blockInfo[n].m_jumpToEndBrInfo =
                                 Append(erased, JumpToEndBrInfo("IsJump",
                                                currentByteCodeSize(e2.byteCode)))],
                             Jump(0))
                    ELSE [e2 EXCEPT !.m_blockInfo[n].m_jumpToEndBrInfo = erased])
    IN leave(keepBlockResultsIfNeeds(seenBranch(e), blockInfo))

findBlockInfoInBr(e, depth) == e.m_blockInfo[Len(e.m_blockInfo) - depth]

\* popVMStack until the stack is empty (stopToGenerateByteCodeWhileBlockEnd).
stopToGenerateByteCodeWhileBlockEnd(e) ==
    IF e.m_resumeGenerateByteCodeAfterNBlockEnd # 0 THEN e
    ELSE LET n == Len(e.m_blockInfo)
             e1 == IF n > 0
                   THEN [e EXCEPT !.m_resumeGenerateByteCodeAfterNBlockEnd = 1,
                                  !.m_blockInfo[n].m_shouldRestoreVMStackAtEnd = TRUE,
                                  !.m_blockInfo[n].m_byteCodeGenerationStopped = TRUE]
                   ELSE popVMStackN(e, Len(e.m_vmStack))
         IN [e1 EXCEPT !.m_shouldContinueToGenerateByteCode = FALSE]

\* ----------------------------------------------------------------- branches
stackAllocatedSize(info) == valueStackAllocatedSize(info.valueType)

RECURSIVE sizeOfEntries(_, _)
sizeOfEntries(stack, from) ==
    IF from > Len(stack) THEN 0
    ELSE stackAllocatedSize(stack[from]) + sizeOfEntries(stack, from + 1)

\* dropStackValuesBeforeBrIfNeeds: <<dropValueSize, parameterSize>>.
dropStackValuesBeforeBrIfNeeds(e, depth) ==
    IF depth < Len(e.m_blockInfo)
    THEN LET b == e.m_blockInfo[Len(e.m_blockInfo) - depth]
             sig == b.m_returnValueType
             extra == sizeOfEntries(e.m_vmStack, Len(b.m_vmStack) + 1)
         IN IF Len(b.m_vmStack) < Len(e.m_vmStack)
            THEN IF b.m_blockType = "Loop"
                 THEN IF sig.isIndex
                      THEN <<extra + paramStackSize(sig.param), paramStackSize(sig.param)>>
                      ELSE <<extra, 0>>
                 ELSE <<extra, paramStackSize(sig.result)>>
            ELSE <<0, 0>>
    ELSE IF Len(e.m_blockInfo) > 0
    THEN <<sizeOfEntries(e.m_vmStack, Len(e.m_blockInfo[1].m_vmStack) + 1), 0>>
    ELSE <<0, 0>>

\* The two searches of generateMoveValuesCodeRegardToDrop: the index of the
\* entry at which `remain` bytes, counted from the top, are used up; 0 when
\* the sizes do not line up, -1 when the search runs off the stack.
RECURSIVE findFromTop(_, _, _)
findFromTop(stack, i, remain) ==
    IF i < 1 THEN -1
    ELSE LET r == remain - stackAllocatedSize(stack[i])
         IN IF r = 0 THEN i ELSE IF r < 0 THEN 0 ELSE findFromTop(stack, i - 1, r)

RECURSIVE moveValues(_, _, _, _)
moveValues(e, s, d, remain) ==
    IF s > Len(e.m_vmStack) \/ d > Len(e.m_vmStack)
    THEN Broken(e, "move iterator past the top of the value stack")
    ELSE LET e1 == generateMoveCodeIfNeeds(e, e.m_vmStack[s].position,
                       e.m_vmStack[d].nonOptimizedPosition, e.m_vmStack[s].valueType)
             r == remain - stackAllocatedSize(e.m_vmStack[s])
         IN IF r = 0 THEN e1 ELSE moveValues(e1, s + 1, d + 1, r)

generateMoveValuesCodeRegardToDrop(e, dropSize) ==
    LET s == findFromTop(e.m_vmStack, Len(e.m_vmStack), dropSize[2])
        d == findFromTop(e.m_vmStack, Len(e.m_vmStack), dropSize[1])
    IN IF s = -1 \/ (s > 0 /\ d = -1)
       THEN Broken(e, "move iterator below the value stack")
       ELSE IF s = 0 \/ d = 0 THEN e
       ELSE moveValues(e, s, d, dropSize[2])

End(tail) == ByteCode("End", SIZE_MAX, SIZE_MAX, SIZE_MAX, 0, tail, 0)

\* generateEndCode: the End record lists the offsets of the top entries, one
\* per result of the function.
generateEndCode(e, shouldClearVMStack) ==
    LET n == Len(e.fn.result)
        m == Len(e.m_vmStack)
        clear(e1) == IF shouldClearVMStack THEN popVMStackN(e1, n) ELSE e1
    IN IF n > m THEN e
       ELSE clear(pushByteCode(e, End([i \in 1..n |-> e.m_vmStack[m - n + i].position])))

\* while (dropSize) dropSize -= popVMStackInfo().stackAllocatedSize();
RECURSIVE popVMStackBytes(_, _)
popVMStackBytes(e, dropSize) ==
    IF dropSize = 0 THEN e
    ELSE IF e.m_vmStack = <<>> \/ dropSize < 0
    THEN Broken(e, "pop of an empty value stack")
    ELSE popVMStackBytes(popVMStackInfo(e),
                         dropSize - stackAllocatedSize(peekVMStackInfo(e)))

generateFunctionReturnCode(e, shouldClearVMStack) ==
    LET finish(e2) ==
            IF e2.m_blockInfo = <<>>
            THEN [e2 EXCEPT !.m_shouldContinueToGenerateByteCode = FALSE,
                            !.m_resumeGenerateByteCodeAfterNBlockEnd = 0]
            ELSE e2
        unwind(e1) ==
            IF shouldClearVMStack
            THEN popVMStackBytes(e1,
                     dropStackValuesBeforeBrIfNeeds(e1, Len(e1.m_blockInfo))[1])
            ELSE stopToGenerateByteCodeWhileBlockEnd(
                     popVMStackN(e1, Len(e1.fn.result)))
    IN finish(unwind(generateEndCode(e, FALSE)))

\* The loop-parameter loop of OnBrExpr and OnBrIfExpr: the top n entries move
\* to their canonical slots and stay on the stack.
RECURSIVE moveLoopParams(_, _, _)
moveLoopParams(e, i, n) ==
    IF n = 0 THEN e
    ELSE IF i < 1 THEN Broken(e, "loop parameters below the value stack")
    ELSE LET info == e.m_vmStack[i]
             e1 == generateMoveCodeIfNeeds(e, info.position,
                                           info.nonOptimizedPosition, info.valueType)
         IN moveLoopParams([e1 EXCEPT !.m_vmStack[i].position =
                                info.nonOptimizedPosition], i - 1, n - 1)

isLoopWithParams(blockInfo) ==
    /\ blockInfo.m_blockType = "Loop"
    /\ blockInfo.m_returnValueType.isIndex
    /\ blockInfo.m_returnValueType.param # <<>>

\* blockInfo.m_jumpToEndBrInfo.push_back for a branch to a non-loop block.
addJumpToEnd(e, depth, type, position) ==
    LET n == Len(e.m_blockInfo) - depth
    IN IF e.m_blockInfo[n].m_blockType # "Loop"
       THEN [e EXCEPT !.m_blockInfo[n].m_jumpToEndBrInfo =
                Append(@, JumpToEndBrInfo(type, position))]
       ELSE e

OnBrExpr(e, depth) ==
    LET jump(e2, offset) ==
            stopToGenerateByteCodeWhileBlockEnd(
                pushByteCode(addJumpToEnd(e2, depth, "IsJump",
                                          currentByteCodeSize(e2.byteCode)),
                             Jump(offset)))
        leave(e1, blockInfo, dropSize) ==
            jump(IF dropSize[2] # 0
                 THEN generateMoveValuesCodeRegardToDrop(e1, dropSize)
                 ELSE IF isLoopWithParams(blockInfo)
                 THEN moveLoopParams(e1, Len(e1.m_vmStack),
                                     Len(blockInfo.m_returnValueType.param))
                 ELSE e1,
                 blockInfo.m_position - currentByteCodeSize(e1.byteCode))
        branch(e1) ==
            IF Len(e1.m_blockInfo) = depth
            THEN generateFunctionReturnCode(e1, TRUE)
            ELSE leave(e1, findBlockInfoInBr(e1, depth),
                       dropStackValuesBeforeBrIfNeeds(e1, depth))
    IN branch(seenBranch(e))

OnReturnExpr(e) == generateFunctionReturnCode(seenBranch(e), FALSE)

Unreachable == ByteCode("Unreachable", SIZE_MAX, SIZE_MAX, SIZE_MAX, 0, <<>>, 0)

OnUnreachableExpr(e) ==
    stopToGenerateByteCodeWhileBlockEnd(pushByteCode(seenBranch(e), Unreachable))

skipJumpSamePolarity(inverted, stackPos, off) == JumpIfFalse(stackPos, off)

\* The conditional jump of a br_if in front of an explicit exit sequence; the
\* polarity skips the sequence when the branch is not taken.
skipJump(inverted, stackPos, off) ==
    IF inverted THEN JumpIfTrue(stackPos, off) ELSE JumpIfFalse(stackPos, off)

OnBrIfExpr(e, depth) ==
    LET patch(e2, pos) == setOffset(e2, pos, currentByteCodeSize(e2.byteCode) - pos)
        \* the skipped exit sequence ends with the jump to the target
        jump(m2, blockInfo) ==
            pushByteCode(addJumpToEnd(m2, depth, "IsJump",
                                      currentByteCodeSize(m2.byteCode)),
                         Jump(blockInfo.m_position - currentByteCodeSize(m2.byteCode)))
        moves(m1, blockInfo, dropSize) ==
            IF dropSize[2] # 0 THEN generateMoveValuesCodeRegardToDrop(m1, dropSize)
            ELSE moveLoopParams(m1, Len(m1.m_vmStack),
                                Len(blockInfo.m_returnValueType.param))
        leave(e1, inverted, stackPos, pos, blockInfo, dropSize) ==
            IF dropSize[2] # 0 \/ isLoopWithParams(blockInfo)
            THEN \* values above the block are dropped, or the target is a
                 \* loop with parameters: skip-jump, moves, jump
                 patch(jump(moves(pushByteCode(e1, skipJump(inverted, stackPos, 0)),
                                  blockInfo, dropSize),
                            blockInfo),
                       pos)
            ELSE \* plain conditional jump
                 pushByteCode(addJumpToEnd(e1, depth, "IsJumpIf", pos),
                              IF inverted
                              THEN JumpIfFalse(stackPos, blockInfo.m_position - pos)
                              ELSE JumpIfTrue(stackPos, blockInfo.m_position - pos))
        branch(e1, inverted, stackPos, pos) ==
            IF Len(e1.m_blockInfo) = depth
            THEN \* acts like return
                 patch(generateEndCode(
                           pushByteCode(e1, skipJump(inverted, stackPos,
                               2 * sizeofByteCode + 4 * Len(e1.fn.result))), FALSE),
                       pos)
            ELSE leave(e1, inverted, stackPos, pos, findBlockInfoInBr(e1, depth),
                       dropStackValuesBeforeBrIfNeeds(e1, depth))
        test(e1) == branch(e1, e1.ret = 1, e1.cond, currentByteCodeSize(e1.byteCode))
    IN test(popCondition(seenBranch(e)))

\* Walrus::BrTable::offsetOfDefault(): where, inside the record, the default
\* entry lives.
offsetOfDefault == 12

BrTable(stackPos) == ByteCode("BrTable", SIZE_MAX, stackPos, SIZE_MAX, 0, <<>>, 0)

emitBrTableCase(e, brTableCode, depth, jumpOffset) ==
    LET offset == currentByteCodeSize(e.byteCode) - brTableCode
        entry(dropSize, blockInfo) ==
            IF dropSize[2] # 0
            THEN OnBrExpr(setOffset(e, brTableCode, offset), depth)
            ELSE IF blockInfo.m_blockType # "Loop"
            THEN setOffset(addJumpToEnd(e, depth, "IsBrTable", brTableCode + jumpOffset),
                           brTableCode, jumpOffset)
            ELSE setOffset(e, brTableCode, blockInfo.m_position - brTableCode)
    IN IF Len(e.m_blockInfo) = depth
       THEN generateEndCode(setOffset(e, brTableCode, offset), FALSE)
       ELSE entry(dropStackValuesBeforeBrIfNeeds(e, depth), findBlockInfoInBr(e, depth))

\* OnBrTableExpr with numTargets = 0: the default target only.
OnBrTableExpr(e, defaultTargetDepth) ==
    LET table(e2, stackPos) ==
            stopToGenerateByteCodeWhileBlockEnd(
                emitBrTableCase(pushByteCode(e2, BrTable(stackPos)),
                                currentByteCodeSize(e2.byteCode),
                                defaultTargetDepth, offsetOfDefault))
        condition(e1) == table(popVMStackInfo(e1), peekVMStackInfo(e1).position)
    IN condition(seenBranch(e))

\* The patch loop stopping after the first fixup of the list.
patchFirstJumpToEnd(e, fixups) ==
    IF fixups = <<>> THEN e
    ELSE setOffset(e, fixups[1].m_position,
                   currentByteCodeSize(e.byteCode) - fixups[1].m_position)

\* The patch loop of OnEndExpr.
RECURSIVE patchJumpsToEnd(_, _)
patchJumpsToEnd(e, fixups) ==
    IF fixups = <<>> THEN e
    ELSE LET f == fixups[1]
             size == currentByteCodeSize(e.byteCode)
             e1 == IF f.m_type = "IsBrTable"
                   THEN IF IndexOf(f.m_position) \in 1..Len(e.byteCode)
                        THEN setOffset(e, f.m_position,
                                 size + e.byteCode[IndexOf(f.m_position)].off
                                     - f.m_position)
                        ELSE Broken(e, "patch outside the byte code")
                   ELSE setOffset(e, f.m_position, size - f.m_position)
         IN patchJumpsToEnd(e1, Tail(fixups))

RECURSIVE pushVMStackTypes(_, _)
pushVMStackTypes(e, types) ==
    IF types = <<>> THEN e
    ELSE pushVMStackTypes(pushVMStack(e, types[1]), Tail(types))

\* std::numeric_limits<Index>::max(), the tag index of catch_all; any value
\* above every tag index of the bounded model behaves identically.
IndexMax == 1000000

CatchInfo(depth, tryStart, tryEnd, catchStart, tagIndex) ==
    [m_tryCatchBlockDepth |-> depth, m_tryStart |-> tryStart, m_tryEnd |-> tryEnd,
     m_catchStart |-> catchStart, m_tagIndex |-> tagIndex]

OnTryExprFlagOnly(e, sig) == [e EXCEPT !.m_hasTryCatch = TRUE]

\* OnTryExpr: the record of the try block, and the function is marked.
OnTryExpr(e, sig) ==
    [pushBlockInfo(e, "TryCatch", sig, FALSE) EXCEPT !.m_hasTryCatch = TRUE]

\* processCatchExpr; param holds the parameter kinds of the tag's signature
\* (none for catch_all).
processCatchExpr(e, tagIndex, param) ==
    LET n == Len(e.m_blockInfo)
        blockInfo == e.m_blockInfo[n]
        record(e4, tryEnd) ==
            pushVMStackTypes(
                [e4 EXCEPT !.m_blockInfo[n].m_byteCodeGenerationStopped = FALSE,
                           !.m_catchInfo = Append(@,
                               CatchInfo(n, blockInfo.m_position, tryEnd,
                                         currentByteCodeSize(e4.byteCode), tagIndex))],
                IF tagIndex # IndexMax THEN param ELSE <<>>)
        leave(e3, tryEnd) ==
            record(IF ~blockInfo.m_byteCodeGenerationStopped
                   THEN pushByteCode(
                            [e3 EXCEPT !.m_blockInfo[n].m_jumpToEndBrInfo =
                                Append(@, JumpToEndBrInfo("IsJump",
                                              currentByteCodeSize(e3.byteCode)))],
                            Jump(0))
                   ELSE e3,
                   tryEnd)
        restored(e2) ==
            leave(e2, IF e2.m_catchInfo # <<>>
                         /\ Last(e2.m_catchInfo).m_tryCatchBlockDepth = n
                      THEN Last(e2.m_catchInfo).m_tryEnd
                      ELSE currentByteCodeSize(e2.byteCode))
    IN IF n = 0 THEN Broken(e, "catch without an open block")
       ELSE restored(restoreVMStackBy(keepBlockResultsIfNeeds(seenBranch(e), blockInfo),
                                      blockInfo))

\* The stack size a catch record restores: the widths of the live entries
\* at the indices of the block's entry snapshot, on the initial stack size.
stackSizeToBe(e1, blockInfo) ==
    e1.m_initialFunctionStackSize
        + sizeOfEntries(SubSeq(e1.m_vmStack, 1, Len(blockInfo.m_vmStack)), 1)

OnEndExprResuming(e) ==
    LET blockInfo == Last(e.m_blockInfo)
        sig == blockInfo.m_returnValueType
        restore(e2) ==
            IF blockInfo.m_shouldRestoreVMStackAtEnd
            THEN pushVMStackTypes(
                     popVMStackN(restoreVMStackBy(e2, blockInfo), Len(sig.param)),
                     sig.result)
            ELSE e2
        close(e1) ==
            IF FALSE
            THEN stopToGenerateByteCodeWhileBlockEnd(e1)
            ELSE patchJumpsToEnd(restore(keepBlockResultsIfNeeds(e1, blockInfo)),
                                 blockInfo.m_jumpToEndBrInfo)
        \* the catch records of the try block that ends go to the function
        mine(e1) == {i \in 1..Len(e1.m_catchInfo) :
                        e1.m_catchInfo[i].m_tryCatchBlockDepth - 1 = Len(e1.m_blockInfo)}
        harvest(e1) ==
            IF blockInfo.m_blockType # "TryCatch" \/ mine(e1) = {} THEN e1
            ELSE IF Len(blockInfo.m_vmStack) > Len(e1.m_vmStack)
            THEN Broken(e1, "read past the top of the value stack")
            ELSE [e1 EXCEPT
                    !.m_functionCatchInfo = @ \o
                        [j \in 1..Cardinality(mine(e1)) |->
                            LET c == SelectSeq(e1.m_catchInfo,
                                         LAMBDA x : x.m_tryCatchBlockDepth - 1
                                                        = Len(e1.m_blockInfo))[j]
                            IN [m_tryStart |-> c.m_tryStart, m_tryEnd |-> c.m_tryEnd,
                                m_catchStart |-> c.m_catchStart,
                                m_stackSizeToBe |-> stackSizeToBe(e1, blockInfo),
                                m_tagIndex |-> c.m_tagIndex]],
                    !.m_catchInfo = SelectSeq(@,
                        LAMBDA x : x.m_tryCatchBlockDepth - 1 # Len(e1.m_blockInfo))]
    IN IF e.m_blockInfo = <<>>
       THEN generateEndCode([e EXCEPT !.m_lastI32EqzPos = s_noI32Eqz], TRUE)
       ELSE close(harvest([e EXCEPT !.m_lastI32EqzPos = s_noI32Eqz,
                                    !.m_blockInfo = Front(@)]))

OnEndExpr(e) ==
    LET blockInfo == Last(e.m_blockInfo)
        sig == blockInfo.m_returnValueType
        restore(e2) ==
            IF blockInfo.m_shouldRestoreVMStackAtEnd
            THEN pushVMStackTypes(
                     popVMStackN(restoreVMStackBy(e2, blockInfo), Len(sig.param)),
                     sig.result)
            ELSE e2
        close(e1) ==
            IF blockInfo.m_byteCodeGenerationStopped
                  /\ blockInfo.m_jumpToEndBrInfo = <<>>
            THEN stopToGenerateByteCodeWhileBlockEnd(e1)
            ELSE patchJumpsToEnd(restore(keepBlockResultsIfNeeds(e1, blockInfo)),
                                 blockInfo.m_jumpToEndBrInfo)
        \* the catch records of the try block that ends go to the function
        mine(e1) == {i \in 1..Len(e1.m_catchInfo) :
                        e1.m_catchInfo[i].m_tryCatchBlockDepth - 1 = Len(e1.m_blockInfo)}
        harvest(e1) ==
            IF blockInfo.m_blockType # "TryCatch" \/ mine(e1) = {} THEN e1
            ELSE IF Len(blockInfo.m_vmStack) > Len(e1.m_vmStack)
            THEN Broken(e1, "read past the top of the value stack")
            ELSE [e1 EXCEPT
                    !.m_functionCatchInfo = @ \o
                        [j \in 1..Cardinality(mine(e1)) |->
                            LET c == SelectSeq(e1.m_catchInfo,
                                         LAMBDA x : x.m_tryCatchBlockDepth - 1
                                                        = Len(e1.m_blockInfo))[j]
                            IN [m_tryStart |-> c.m_tryStart, m_tryEnd |-> c.m_tryEnd,
                                m_catchStart |-> c.m_catchStart,
                                m_stackSizeToBe |-> stackSizeToBe(e1, blockInfo),
                                m_tagIndex |-> c.m_tagIndex]],
                    !.m_catchInfo = SelectSeq(@,
                        LAMBDA x : x.m_tryCatchBlockDepth - 1 # Len(e1.m_blockInfo))]
    IN IF e.m_blockInfo = <<>>
       THEN generateEndCode([e EXCEPT !.m_lastI32EqzPos = s_noI32Eqz], TRUE)
       ELSE close(harvest([e EXCEPT !.m_lastI32EqzPos = s_noI32Eqz,
                                    !.m_blockInfo = Front(@)]))

\* ------------------------------------------------- the decoder's validation
\* The operand-type stack and control frames of the WebAssembly validation
\* algorithm, for the opcodes of the model.  v = [ok, vals, ctrl].
Frame(kind, sig, height) ==
    [kind |-> kind, sig |-> sig, height |-> height, unreachable |-> FALSE]

labelTypes(frame) == IF frame.kind = "loop" THEN frame.sig.param ELSE frame.sig.result

Invalid(v) == [v EXCEPT !.ok = FALSE]

popVal(v, type) ==
    LET f == Last(v.ctrl)
    IN IF Len(v.vals) = f.height
       THEN IF f.unreachable THEN v ELSE Invalid(v)
       ELSE IF type = "Any" \/ Last(v.vals) = type
       THEN [v EXCEPT !.vals = Front(@)]
       ELSE Invalid(v)

RECURSIVE popVals(_, _)
popVals(v, types) ==
    IF types = <<>> \/ ~v.ok THEN v
    ELSE popVals(popVal(v, Last(types)), Front(types))

pushVals(v, types) == [v EXCEPT !.vals = @ \o types]

markUnreachable(v) ==
    LET n == Len(v.ctrl)
    IN [v EXCEPT !.vals = SubSeq(@, 1, v.ctrl[n].height),
                 !.ctrl[n].unreachable = TRUE]

pushCtrl(v, kind, sig) ==
    LET v1 == popVals(v, sig.param)
    IN pushVals([v1 EXCEPT !.ctrl = Append(@, Frame(kind, sig, Len(v1.vals)))],
                sig.param)

\* The end of the frame on top: its results are on the stack and nothing else.
closeCtrl(v) ==
    LET f == Last(v.ctrl)
        v1 == popVals(v, f.sig.result)
    IN IF v1.ok /\ Len(v1.vals) = f.height
       THEN [v1 EXCEPT !.ctrl = Front(@)]
       ELSE Invalid(v1)

validate(v, instr, types) ==
    LET op == instr.op
        n == Len(v.ctrl)
        target == v.ctrl[n - instr.a]
    IN CASE op = "i32.const" -> pushVals(v, <<"I32">>)
         [] op = "local.get" ->
                IF instr.a < Len(types) THEN pushVals(v, <<types[instr.a + 1]>>)
                ELSE Invalid(v)
         [] op = "local.set" ->
                IF instr.a < Len(types) THEN popVal(v, types[instr.a + 1])
                ELSE Invalid(v)
         [] op = "local.tee" ->
                IF instr.a < Len(types)
                THEN pushVals(popVal(v, types[instr.a + 1]), <<types[instr.a + 1]>>)
                ELSE Invalid(v)
         [] op = "drop" -> popVal(v, "Any")
         [] op = "call" -> pushVals(popVals(v, instr.sig.param), instr.sig.result)
         [] op = "i32.add" -> pushVals(popVals(v, <<"I32", "I32">>), <<"I32">>)
         [] op = "i32.eqz" -> pushVals(popVal(v, "I32"), <<"I32">>)
         [] op = "block" -> pushCtrl(v, "block", instr.sig)
         [] op = "loop" -> pushCtrl(v, "loop", instr.sig)
         [] op = "if" -> pushCtrl(popVal(v, "I32"), "if", instr.sig)
         [] op = "try" -> pushCtrl(v, "try", instr.sig)
         [] op \in {"catch", "catch_all"} ->
                IF v.ctrl[n].kind \notin {"try", "catch"} THEN Invalid(v)
                ELSE LET v1 == closeCtrl(v)
                     IN IF ~v1.ok THEN v1
                        ELSE pushVals([v1 EXCEPT !.ctrl = Append(@,
                                 Frame(IF op = "catch" THEN "catch" ELSE "catch_all",
                                       v.ctrl[n].sig, v.ctrl[n].height))],
                                 IF op = "catch" THEN instr.sig.param ELSE <<>>)
         [] op = "else" ->
                IF v.ctrl[n].kind # "if" THEN Invalid(v)
                ELSE LET v1 == closeCtrl(v)
                     IN IF ~v1.ok THEN v1
                        ELSE pushVals([v1 EXCEPT !.ctrl = Append(@,
                                 Frame("else", v.ctrl[n].sig, v.ctrl[n].height))],
                                 v.ctrl[n].sig.param)
         [] op = "end" ->
                IF v.ctrl[n].kind = "if" /\ v.ctrl[n].sig.param # v.ctrl[n].sig.result
                THEN Invalid(v)
                ELSE LET v1 == closeCtrl(v)
                     IN IF v1.ok THEN pushVals(v1, v.ctrl[n].sig.result) ELSE v1
         [] op = "br" ->
                IF instr.a < n THEN markUnreachable(popVals(v, labelTypes(target)))
                ELSE Invalid(v)
         [] op = "br_if" ->
                IF instr.a < n
                THEN LET v1 == popVals(popVal(v, "I32"), labelTypes(target))
                     IN IF v1.ok THEN pushVals(v1, labelTypes(target)) ELSE v1
                ELSE Invalid(v)
         [] op = "br_table" ->
                IF instr.a < n
                THEN markUnreachable(popVals(popVal(v, "I32"), labelTypes(target)))
                ELSE Invalid(v)
         [] op = "return" -> markUnreachable(popVals(v, v.ctrl[1].sig.result))
         [] op = "unreachable" -> markUnreachable(v)

\* ------------------------------------------------------ the decoder's events
\* Which handler the decoder calls for an instruction.
handler(e, instr) ==
    LET op == instr.op
    IN CASE op = "i32.const" -> OnI32ConstExpr(e, instr.a)
         [] op = "local.get" -> OnLocalGetExpr(e, instr.a)
         [] op = "local.set" -> OnLocalSetExpr(e, instr.a)
         [] op = "local.tee" -> OnLocalTeeExpr(e, instr.a)
         [] op = "drop" -> OnDropExpr(e)
         [] op = "call" -> OnCallExpr(e, instr.a, instr.sig)
         [] op = "i32.add" -> OnBinaryExpr(e)
         [] op = "i32.eqz" -> OnUnaryExpr(e)
         [] op = "block" -> OnBlockExpr(e, instr.sig)
         [] op = "loop" -> OnLoopExpr(e, instr.sig)
         [] op = "if" -> OnIfExpr(e, instr.sig)
         [] op = "else" -> OnElseExpr(e)
         [] op = "try" -> OnTryExpr(e, instr.sig)
         [] op = "catch" -> processCatchExpr(e, instr.a, instr.sig.param)
         [] op = "catch_all" -> processCatchExpr(e, IndexMax, <<>>)
         [] op = "end" -> OnEndExpr(e)
         [] op = "br" -> OnBrExpr(e, instr.a)
         [] op = "br_if" -> OnBrIfExpr(e, instr.a)
         [] op = "br_table" -> OnBrTableExpr(e, instr.a)
         [] op = "return" -> OnReturnExpr(e)
         [] op = "unreachable" -> OnUnreachableExpr(e)

\* While generation is stopped the decoder calls no handler and counts the
\* blocks it skips; the end (or else) matching the stop resumes generation.
dispatch(e, instr) ==
    LET op == instr.op
        stopped == ~e.m_shouldContinueToGenerateByteCode
        resume == e.m_resumeGenerateByteCodeAfterNBlockEnd
        resumes == stopped /\ resume = 1
                      /\ op \in {"end", "else", "catch", "catch_all"}
    IN IF ~stopped \/ resumes
       THEN handler(IF resumes
                    THEN [e EXCEPT !.m_resumeGenerateByteCodeAfterNBlockEnd = 0,
                                   !.m_shouldContinueToGenerateByteCode = TRUE]
                    ELSE e, instr)
       ELSE IF resume = 0 THEN e
       ELSE IF op \in {"block", "loop", "if", "try"}
       THEN [e EXCEPT !.m_resumeGenerateByteCodeAfterNBlockEnd = resume + 1]
       ELSE IF op = "end"
       THEN [e EXCEPT !.m_resumeGenerateByteCodeAfterNBlockEnd = resume - 1]
       ELSE e

\* ----------------------------------------------------------- optimizeLocals
\* variableRange is the std::map of optimizeLocals: a function from the key
\* (a stack offset) to the variableRangeInfo stored under it.
variableRangeInfo(originalPosition, type) ==
    [originalPosition |-> originalPosition, needsInit |-> FALSE, type |-> type,
     start |-> SIZE_MAX, end |-> 0, pos |-> 0, sets |-> <<>>, gets |-> <<>>,
     assignedPosition |-> "nullptr"]

\* The keys of a map in iteration order.
RECURSIVE SortedKeys(_)
SortedKeys(keys) ==
    IF keys = {} THEN <<>>
    ELSE LET k == CHOOSE x \in keys : \A y \in keys : x <= y
         IN <<k>> \o SortedKeys(keys \ {k})

\* The map before the collection pass: one entry per local (parameters are
\* written at position 0) and one per retained constant.
initialVariableRange(e) ==
    LET nparam == Len(e.fn.param)
        localKeys == {e.m_localInfo[i].m_position : i \in 1..Len(e.m_localInfo)}
        constKeys == {e.m_constantData[i].position : i \in 1..Len(e.m_constantData)}
        constAt(k) == CHOOSE i \in 1..Len(e.m_constantData) :
                         e.m_constantData[i].position = k
        localAt(k) == CHOOSE i \in 1..Len(e.m_localInfo) :
                         /\ e.m_localInfo[i].m_position = k
                         /\ \A j \in 1..Len(e.m_localInfo) :
                                e.m_localInfo[j].m_position = k => j <= i
    IN [k \in localKeys \cup constKeys |->
           IF k \in constKeys
           THEN variableRangeInfo(k, e.m_constantData[constAt(k)].type)
           ELSE IF localAt(k) <= nparam
           THEN [variableRangeInfo(k, e.m_localInfo[localAt(k)].m_valueType)
                    EXCEPT !.start = 0, !.sets = <<0>>]
           ELSE variableRangeInfo(k, e.m_localInfo[localAt(k)].m_valueType)]

\* variableRange[key]: the map's operator[], which stores a default
\* variableRangeInfo under a key it does not hold.
defaultVariableRangeInfo ==
    [variableRangeInfo(0, "Void") EXCEPT !.start = 0]

touch(vr, key) ==
    IF key \in DOMAIN vr THEN vr
    ELSE [k \in DOMAIN vr \cup {key} |->
             IF k = key THEN defaultVariableRangeInfo ELSE vr[k]]

\* One operand of the record at position i: the generic loop of the
\* collection pass (isSet: the operand is offsets[0]).
noteOperand(vr, offset, i, isSet) ==
    IF offset \notin DOMAIN vr THEN vr
    ELSE [vr EXCEPT ![offset] =
             [@ EXCEPT !.start = Min(@, i), !.end = Max(@, i),
                       !.sets = IF isSet THEN Append(@, i) ELSE @,
                       !.gets = IF isSet THEN @ ELSE Append(@, i)]]

\* A result offset of an End record at position i.
RECURSIVE noteEndOffsets(_, _, _)
noteEndOffsets(vr, tail, i) ==
    IF tail = <<>> THEN vr
    ELSE noteEndOffsets(
             IF tail[1] \in DOMAIN vr
             THEN [vr EXCEPT ![tail[1]] =
                      [@ EXCEPT !.end = i, !.gets = Append(@, i), !.start = Min(@, i)]]
             ELSE vr,
             Tail(tail), i)

\* The offsets of a Call record at position i: the map is indexed with
\* every offset of the array, n counts the argument offsets still to come.
RECURSIVE noteCallOffsets(_, _, _, _)
noteCallOffsets(vr, tail, n, i) ==
    IF tail = <<>> THEN vr
    ELSE noteCallOffsets(
             [touch(vr, tail[1]) EXCEPT ![tail[1]] =
                 [@ EXCEPT !.end = Max(@, i), !.start = Min(@, i),
                           !.gets = IF n > 0 THEN Append(@, i) ELSE @,
                           !.sets = IF n > 0 THEN @ ELSE Append(@, i)]],
             Tail(tail), n - 1, i)

collectByteCode(vr, code, i) ==
    CASE code.op = "I32Add" ->
             noteOperand(noteOperand(noteOperand(vr, code.dst, i, TRUE),
                                     code.src0, i, FALSE), code.src1, i, FALSE)
      [] code.op \in {"I32Eqz", "MoveI32", "MoveI64"} ->
             noteOperand(noteOperand(vr, code.dst, i, TRUE), code.src0, i, FALSE)
      [] code.op \in {"Const32", "Const64"} -> noteOperand(vr, code.dst, i, TRUE)
      [] code.op \in {"JumpIfTrue", "JumpIfFalse"} -> noteOperand(vr, code.src0, i, FALSE)
      [] code.op = "End" -> noteEndOffsets(vr, code.tail, i)
      [] code.op = "Call" -> noteCallOffsets(vr, code.tail, code.off, i)
      [] code.op = "BrTable" -> noteOperand(vr, code.src0, i, FALSE)
      [] OTHER -> vr

RECURSIVE collectRanges(_, _, _)
collectRanges(vr, byteCodes, n) ==
    IF n > Len(byteCodes) THEN vr
    ELSE collectRanges(collectByteCode(vr, byteCodes[n], (n - 1) * sizeofByteCode),
                       byteCodes, n + 1)

\* labels: the <<position, target>> pair of every jump that does not target
\* itself, in the order of the multimap (descending position).
collectLabels(byteCodes) ==
    LET jumps == {n \in 1..Len(byteCodes) :
                     /\ byteCodes[n].op \in {"Jump", "JumpIfTrue", "JumpIfFalse", "BrTable"}
                     /\ byteCodes[n].off # 0}
    IN {<<(n - 1) * sizeofByteCode, (n - 1) * sizeofByteCode + byteCodes[n].off>> :
           n \in jumps}

\* std::lower_bound(sets.begin(), sets.end(), pos, elem >= value): the binary
\* search as the library runs it; sets is ascending, so the predicate is not
\* a partition and the result is what the probes happen to find.  Indices
\* are 1-based, Len(sets) + 1 is sets.end().
RECURSIVE lowerBoundSets(_, _, _, _)
lowerBoundSets(sets, first, len, pos) ==
    IF len <= 0 THEN first
    ELSE LET half == len \div 2
             middle == first + half
         IN IF sets[middle] >= pos
            THEN lowerBoundSets(sets, middle + 1, len - half - 1, pos)
            ELSE lowerBoundSets(sets, first, half, pos)

\* std::lower_bound on the labels: the label with the greatest position
\* below pos; <<>> when there is none.
closestLabel(labels, pos) ==
    LET below == {l \in labels : l[1] < pos}
    IN IF below = {} THEN <<>>
       ELSE CHOOSE l \in below : \A m \in below : m[1] <= l[1]

\* The work list of one get position.  r = [needsInit, start, seenLabels,
\* hang, grew]; every step pops one position and pushes at most one, so the
\* list is a chain.  A position below zero wraps (size_t); the chain from a
\* wrapped position is the same every time, a second wrap never ends.  grew
\* tells that a position was pushed that is not below the one popped.
RECURSIVE followPositions(_, _, _, _, _)
followPositions(r, sets, labels, pos, wrapped) ==
    LET closestSet == lowerBoundSets(sets, 1, Len(sets), pos)
        label == closestLabel(labels, pos)
        set == sets[closestSet]
        seen == [r EXCEPT !.seenLabels = @ \cup {label}]
        before == SubSizeT(label[1], 1)
        wraps == label[1] = 0
        pushed(p) == [seen EXCEPT !.grew = @ \/ p >= pos]
        next == IF wraps /\ wrapped THEN [pushed(before) EXCEPT !.hang = TRUE]
                ELSE followPositions(pushed(before), sets, labels, before,
                                     wrapped \/ wraps)
    IN IF closestSet > Len(sets) THEN [r EXCEPT !.start = 0, !.needsInit = TRUE]
       ELSE IF label = <<>> THEN r
       ELSE IF label[1] > label[2]
       THEN IF set > label[1] THEN seen
            ELSE IF set < label[2]
            THEN followPositions(pushed(label[2] - 1), sets, labels, label[2] - 1,
                                 wrapped)
            ELSE IF set > label[2] /\ set < label[1] THEN next
            ELSE seen
       ELSE IF set > label[2] THEN seen
            ELSE IF set < label[1] \/ (set > label[1] /\ set < label[2]) THEN next
            ELSE seen

\* positions.back() first: the gets from the last to the first.
RECURSIVE followGets(_, _, _, _)
followGets(r, sets, labels, gets) ==
    IF gets = <<>> \/ r.hang THEN r
    ELSE followGets(followPositions(r, sets, labels, Last(gets), FALSE),
                    sets, labels, Front(gets))

\* The range finding for one entry of the map.
walkRange(range, labels) ==
    followGets([needsInit |-> range.needsInit, start |-> range.start,
                seenLabels |-> {}, hang |-> FALSE, grew |-> FALSE],
               range.sets, labels, range.gets)

findRange(range, labels) ==
    LET widen(r) ==
            LET firsts == {l[1] : l \in r.seenLabels}
                seconds == {l[2] : l \in r.seenLabels}
            IN [range EXCEPT
                   !.needsInit = r.needsInit,
                   !.start = IF \E x \in firsts : x < r.start
                             THEN CHOOSE x \in firsts : \A y \in firsts : x <= y
                             ELSE r.start,
                   !.end = IF \E x \in seconds : x > range.end
                           THEN CHOOSE x \in seconds : \A y \in seconds : x >= y
                           ELSE range.end,
                   !.gets = <<>>, !.sets = <<>>]
    IN widen(walkRange(range, labels))

\* ---- allocation
isUnusedRange(range) == range.start = range.end \/ range.start = SIZE_MAX

\* preallocateParameters: every parameter gets a stack element of its own at
\* its home offset; range.pos is left alone.
preallocateParameters(vr, e) ==
    LET homes == {e.m_localInfo[i].m_position : i \in 1..Len(e.fn.param)}
    IN [k \in DOMAIN vr |->
           IF k \in homes THEN [vr[k] EXCEPT !.assignedPosition = "parameter"]
           ELSE vr[k]]

\* The entries without a live range share the element at `offset`.
assignUnused(vr, offset) ==
    [k \in DOMAIN vr |->
        IF isUnusedRange(vr[k])
        THEN [vr[k] EXCEPT !.assignedPosition = "unused", !.pos = offset]
        ELSE vr[k]]

unusedElemOffset(vr, offset) ==
    IF \E k \in DOMAIN vr : isUnusedRange(vr[k]) /\ vr[k].type = "I64"
    THEN offset + 8 ELSE offset + 4

\* st = [vr, offset, outcome].  deallocateLocal and allocateLocal receive the
\* free lists by value and the caller's lists stay empty: a released element
\* is never found again and every allocation appends a new element.
deallocateLocal(st, k) ==
    IF st.vr[k].assignedPosition = "nullptr"
    THEN [st EXCEPT !.outcome = "release of a range without a slot"]
    ELSE IF st.vr[k].type = "Void"
    THEN [st EXCEPT !.outcome = "RELEASE_ASSERT_NOT_REACHED"]
    ELSE [st EXCEPT !.vr[k].assignedPosition = "nullptr"]

allocateLocal(st, k) ==
    IF st.vr[k].type = "Void"
    THEN [st EXCEPT !.outcome = "RELEASE_ASSERT_NOT_REACHED"]
    ELSE [st EXCEPT !.vr[k].assignedPosition = "slot",
                    !.vr[k].pos = st.offset,
                    !.offset = @ + valueStackAllocatedSize(st.vr[k].type)]

RECURSIVE allocateAt(_, _, _)
allocateAt(st, i, keys) ==
    IF keys = <<>> \/ st.outcome # "" THEN st
    ELSE LET k == keys[1]
             range == st.vr[k]
             st1 == IF range.start # range.end /\ range.end = i
                    THEN deallocateLocal(st, k) ELSE st
             st2 == IF /\ st1.outcome = ""
                       /\ range.start # range.end
                       /\ range.start = i
                       /\ st1.vr[k].assignedPosition = "nullptr"
                    THEN allocateLocal(st1, k) ELSE st1
         IN allocateAt(st2, i, Tail(keys))

RECURSIVE allocateRanges(_, _, _, _)
allocateRanges(st, n, count, keys) ==
    IF n > count THEN st
    ELSE allocateRanges(allocateAt(st, (n - 1) * sizeofByteCode, keys),
                        n + 1, count, keys)

\* maxOffset - offset when the locals and constants used to end above the
\* allocated area, else 0.
offsetDifference(e, offset) ==
    LET ends == {e.m_localInfo[i].m_position
                     + valueStackAllocatedSize(e.m_localInfo[i].m_valueType) :
                     i \in 1..Len(e.m_localInfo)}
                \cup {e.m_constantData[i].position
                          + valueStackAllocatedSize(e.m_constantData[i].type) :
                          i \in 1..Len(e.m_constantData)}
        maxOffset == CHOOSE x \in ends : \A y \in ends : y <= x
    IN IF maxOffset > offset THEN maxOffset - offset ELSE 0

\* ---- rewriting
\* A fixed operand: a parameter, a constant or a declared local goes to the
\* pos of its range, anything else is a stack temporary and moves down.
rewriteOffset(vr, x, diff) ==
    IF x = SIZE_MAX THEN x
    ELSE IF x \in DOMAIN vr THEN vr[x].pos
    ELSE IF x - diff >= 0 THEN x - diff
    ELSE x

rewriteByteCode(vr, code, diff) ==
    IF code.op \in {"I32Add", "I32Eqz", "MoveI32", "MoveI64", "Const32", "Const64",
                    "JumpIfTrue", "JumpIfFalse"}
    THEN [code EXCEPT !.dst = rewriteOffset(vr, @, diff),
                      !.src0 = rewriteOffset(vr, @, diff),
                      !.src1 = rewriteOffset(vr, @, diff)]
    ELSE code

\* One entry of a variable-size offset array (the results of an End).  The
\* constants are compared one after the other against the entry as it then
\* is.  st = [vr, x, constant].
RECURSIVE rewriteAgainstConstants(_, _, _)
rewriteAgainstConstants(st, constants, n) ==
    IF n > Len(constants) THEN st
    ELSE rewriteAgainstConstants(
             IF st.x = constants[n].position
             THEN [st EXCEPT !.x = st.vr[constants[n].position].pos,
                             !.constant = TRUE]
             ELSE st,
             constants, n + 1)

rewriteArrayOffset(vr, x, constants, diff) ==
    LET c == rewriteAgainstConstants([vr |-> vr, x |-> x, constant |-> FALSE],
                                     constants, 1)
    IN IF c.constant THEN [vr |-> vr, x |-> c.x]
       ELSE IF x \in DOMAIN vr THEN [vr |-> touch(vr, vr[x].pos), x |-> vr[x].pos]
       ELSE [vr |-> vr, x |-> x - diff]

\* st = [vr, byteCode]: the offset arrays of the records, in order.
RECURSIVE rewriteTail(_, _, _, _, _)
rewriteTail(st, n, j, constants, diff) ==
    IF j > Len(st.byteCode[n].tail) THEN st
    ELSE LET r == rewriteArrayOffset(st.vr, st.byteCode[n].tail[j], constants, diff)
         IN rewriteTail([vr |-> r.vr,
                         byteCode |-> [st.byteCode EXCEPT ![n].tail[j] = r.x]],
                        n, j + 1, constants, diff)

RECURSIVE rewriteArrays(_, _, _, _, _)
rewriteArrays(st, op, n, constants, diff) ==
    IF n > Len(st.byteCode) THEN st
    ELSE rewriteArrays(IF st.byteCode[n].op = op
                       THEN rewriteTail(st, n, 1, constants, diff) ELSE st,
                       op, n + 1, constants, diff)

\* The arrays of the End records first, then those of the Call records.
rewriteEnds(st, n, constants, diff) ==
    rewriteArrays(rewriteArrays(st, "End", n, constants, diff),
                  "Call", n, constants, diff)

\* The condition of one BrTable: the loop over the map, one round per entry.
RECURSIVE rewriteCond(_, _, _, _, _)
rewriteCond(cond, vr, keys, constants, diff) ==
    IF keys = <<>> THEN cond
    ELSE LET c == rewriteAgainstConstants([vr |-> vr, x |-> cond, constant |-> FALSE],
                                          constants, 1)
         IN IF ~c.constant /\ vr[keys[1]].pos = c.x THEN c.x
            ELSE rewriteCond(IF ~c.constant /\ c.x - diff >= 0 THEN c.x - diff ELSE c.x,
                             vr, Tail(keys), constants, diff)

rewriteBrTables(vr, byteCodes, constants, diff) ==
    [n \in 1..Len(byteCodes) |->
        IF byteCodes[n].op = "BrTable"
        THEN [byteCodes[n] EXCEPT !.src0 =
                  rewriteCond(@, vr, SortedKeys(DOMAIN vr), constants, diff)]
        ELSE byteCodes[n]]

\* ---- the end of optimizeLocals
\* The loop that clears needsInit "for the parameters": it looks the map up
\* under the new position of the j-th entry of the rebuilt m_localInfo.
RECURSIVE clearParameterInit(_, _, _, _)
clearParameterInit(vr, localInfo, j, nparam) ==
    IF j > nparam THEN vr
    ELSE clearParameterInit(
             [touch(vr, localInfo[j].m_position)
                 EXCEPT ![localInfo[j].m_position].needsInit = FALSE],
             localInfo, j + 1, nparam)

\* pushInitByteCodes inserts at the front of the byte code.
InitOp(type) == IF type = "I64" THEN "Const64" ELSE "Const32"

RECURSIVE pushInitByteCodes(_, _, _)
pushInitByteCodes(byteCodes, vr, keys) ==
    IF keys = <<>> THEN byteCodes
    ELSE pushInitByteCodes(
             IF vr[keys[1]].needsInit
             THEN <<ByteCode(InitOp(vr[keys[1]].type), vr[keys[1]].pos, SIZE_MAX,
                             SIZE_MAX, 0, <<>>, 0)>> \o byteCodes
             ELSE byteCodes,
             vr, Tail(keys))

optimizeLocals(e) ==
    LET count == Len(e.byteCode)
        labels == collectLabels(e.byteCode)
        paramSize == paramStackSize(e.fn.param)
        \* the init records, the rebuilt m_localInfo, the new stack sizes
        finish(tables, cleared, keys, localInfo, diff) ==
            IF \E k \in DOMAIN cleared : cleared[k].needsInit /\ cleared[k].type = "Void"
            THEN Broken(e, "RELEASE_ASSERT_NOT_REACHED")
            ELSE [e EXCEPT !.byteCode = pushInitByteCodes(tables, cleared, keys),
                           !.m_localInfo = localInfo,
                           !.m_requiredStackSize = @ - diff,
                           !.m_initialFunctionStackSize = @ - diff,
                           !.variableRange = [j \in 1..Len(keys) |-> cleared[keys[j]]]]
        clear(tables, cleared, localInfo, diff) ==
            finish(tables, cleared, SortedKeys(DOMAIN cleared), localInfo, diff)
        rebuild(arrays, keys, localInfo, diff) ==
            clear(rewriteBrTables(arrays.vr, arrays.byteCode, e.m_constantData, diff),
                  clearParameterInit(arrays.vr, localInfo, 1, Len(e.fn.param)),
                  localInfo, diff)
        tails(arrays, keys, diff) ==
            rebuild(arrays, keys,
                    [j \in 1..Len(keys) |->
                        LocalInfo(arrays.vr[keys[j]].type, arrays.vr[keys[j]].pos)],
                    diff)
        ends(arrays, diff) == tails(arrays, SortedKeys(DOMAIN arrays.vr), diff)
        \* the operands of the fixed-size records, then the offset arrays
        rewrite(allocated, diff) ==
            ends(rewriteEnds([vr |-> allocated.vr,
                              byteCode |-> [n \in 1..count |->
                                  rewriteByteCode(allocated.vr, e.byteCode[n], diff)]],
                             1, e.m_constantData, diff),
                 diff)
        place(allocated) ==
            IF allocated.outcome # "" THEN Broken(e, allocated.outcome)
            ELSE rewrite(allocated, offsetDifference(e, allocated.offset))
        \* parameters, the unused element, then one slot per live range
        allocate(found) ==
            place(allocateRanges(
                      [vr |-> assignUnused(preallocateParameters(found, e), paramSize),
                       offset |-> IF \E k \in DOMAIN found : isUnusedRange(found[k])
                                  THEN unusedElemOffset(found, paramSize)
                                  ELSE paramSize,
                       outcome |-> ""],
                      1, count, SortedKeys(DOMAIN found)))
        find(collected) ==
            IF \E k \in DOMAIN collected : walkRange(collected[k], labels).hang
            THEN Broken(e, "optimizeLocals does not terminate")
            ELSE allocate([k \in DOMAIN collected |-> findRange(collected[k], labels)])
    IN IF Len(e.fn.param) = Len(e.m_localInfo) THEN e
       ELSE find(collectRanges(initialVariableRange(e), e.byteCode, 1))

endFunction(e) ==
    [optimizeLocals(e) EXCEPT !.m_vmStack = <<>>,
                              !.m_shouldContinueToGenerateByteCode = TRUE]

EndFunctionBodyHandler(e) == endFunction([e EXCEPT !.m_lastI32EqzPos = s_noI32Eqz])

\* The prelude with every retained constant at the same offset.
assignConstantPositionsShared(data, n, position) ==
    [i \in 1..Len(data) |-> [data[i] EXCEPT !.position = position]]

\* OnEndPreprocess: the retained constants get consecutive slots above the
\* locals and a prelude of constant records.
RECURSIVE assignConstantPositions(_, _, _)
assignConstantPositions(data, n, position) ==
    IF n > Len(data) THEN data
    ELSE assignConstantPositions([data EXCEPT ![n].position = position], n + 1,
             Uint16(position + valueStackAllocatedSize(data[n].type)))

OnEndPreprocessHandler(e) ==
    LET data == assignConstantPositions(organizeConstantData(e.m_constantData), 1,
                                        e.m_initialFunctionStackSize)
        size == Uint16(e.m_initialFunctionStackSize
                    + SumSeq([i \in 1..Len(data) |-> valueStackAllocatedSize(data[i].type)]))
    IN [e EXCEPT !.inPreprocess = FALSE,
                 !.m_shouldContinueToGenerateByteCode = TRUE,
                 !.byteCode = [i \in 1..Len(data) |->
                                  ByteCode(ConstOp(data[i].type), data[i].position,
                                           SIZE_MAX, SIZE_MAX, 0, <<>>, data[i].value)],
                 !.m_functionCatchInfo = <<>>,
                 !.m_blockInfo = <<>>,
                 !.m_catchInfo = <<>>,
                 !.m_vmStack = <<>>,
                 !.m_constantData = data,
                 !.m_initialFunctionStackSize = size,
                 !.m_functionStackSizeSoFar = size,
                 !.m_requiredStackSize = size]

\* ------------------------------------------------------------ the functions
\* A function of the code section (beginFunction(mf, false)).
FunctionType(param, result, local) ==
    [param |-> param, result |-> result, local |-> local, inInitExpr |-> FALSE]

\* The function that holds an initializer expression of value kind type
\* (Store::getDefaultFunctionType, beginFunction(mf, true)).
InitExprFunction(type) ==
    [param |-> <<>>, result |-> <<type>>, local |-> <<>>, inInitExpr |-> TRUE]

localTypes == fn.param \o fn.local

\* beginFunction and OnLocalDecl: homes of the parameters, then of the locals.
RECURSIVE localInfoOf(_, _)
localInfoOf(types, position) ==
    IF types = <<>> THEN <<>>
    ELSE <<LocalInfo(types[1], position)>>
             \o localInfoOf(Tail(types), position + valueStackAllocatedSize(types[1]))

\* The state when the decoder starts to read the body of function f
\* (beginFunction, OnLocalDecl, OnStartPreprocess).
InitFunction(f, bound) ==
    /\ fn = f
    /\ maxBody = bound
    /\ prog = <<>>
    /\ pass = "preprocess"
    /\ pc = 1
    /\ vals = <<>>
    /\ ctrl = <<Frame("func", [isIndex |-> TRUE, ret |-> "Index", param |-> <<>>,
                               result |-> f.result], 0)>>
    /\ m_localInfo = localInfoOf(f.param \o f.local, 0)
    /\ m_initialFunctionStackSize = paramStackSize(f.param \o f.local)
    /\ m_functionStackSizeSoFar = paramStackSize(f.param \o f.local)
    /\ m_requiredStackSize = paramStackSize(f.param \o f.local)
    /\ m_vmStack = <<>>
    /\ m_blockInfo = <<>>
    /\ m_catchInfo = <<>>
    /\ m_functionCatchInfo = <<>>
    /\ m_hasTryCatch = FALSE
    /\ byteCode = <<>>
    /\ m_lastI32EqzPos = s_noI32Eqz
    /\ m_shouldContinueToGenerateByteCode = TRUE
    /\ m_resumeGenerateByteCodeAfterNBlockEnd = 0
    /\ m_localVariableInfo = [i \in 1..Len(f.param \o f.local) |-> LocalVariableInfo]
    /\ m_constantData = <<>>
    /\ variableRange = <<>>
    /\ outcome = ""

NoInstr == Instr("none", 0, SigVoid)

\* The reader object as a handler finds it.
Reader(offset, next) ==
    [inPreprocess |-> pass = "preprocess", offset |-> offset, next |-> next,
     skip |-> FALSE, ret |-> 0, cond |-> 0, fn |-> fn,
     m_localInfo |-> m_localInfo,
     m_initialFunctionStackSize |-> m_initialFunctionStackSize,
     m_functionStackSizeSoFar |-> m_functionStackSizeSoFar,
     m_requiredStackSize |-> m_requiredStackSize,
     m_vmStack |-> m_vmStack, m_blockInfo |-> m_blockInfo, byteCode |-> byteCode,
     m_catchInfo |-> m_catchInfo, m_functionCatchInfo |-> m_functionCatchInfo,
     m_hasTryCatch |-> m_hasTryCatch,
     m_lastI32EqzPos |-> m_lastI32EqzPos,
     m_shouldContinueToGenerateByteCode |-> m_shouldContinueToGenerateByteCode,
     m_resumeGenerateByteCodeAfterNBlockEnd |-> m_resumeGenerateByteCodeAfterNBlockEnd,
     m_localVariableInfo |-> m_localVariableInfo,
     m_constantData |-> m_constantData,
     variableRange |-> variableRange, outcome |-> outcome]

Commit(e) ==
    /\ m_localInfo' = e.m_localInfo
    /\ m_initialFunctionStackSize' = e.m_initialFunctionStackSize
    /\ m_functionStackSizeSoFar' = e.m_functionStackSizeSoFar
    /\ m_requiredStackSize' = e.m_requiredStackSize
    /\ m_vmStack' = e.m_vmStack
    /\ m_blockInfo' = e.m_blockInfo
    /\ m_catchInfo' = e.m_catchInfo
    /\ m_functionCatchInfo' = e.m_functionCatchInfo
    /\ m_hasTryCatch' = e.m_hasTryCatch
    /\ byteCode' = e.byteCode
    /\ m_lastI32EqzPos' = e.m_lastI32EqzPos
    /\ m_shouldContinueToGenerateByteCode' = e.m_shouldContinueToGenerateByteCode
    /\ m_resumeGenerateByteCodeAfterNBlockEnd' = e.m_resumeGenerateByteCodeAfterNBlockEnd
    /\ m_localVariableInfo' = e.m_localVariableInfo
    /\ m_constantData' = e.m_constantData
    /\ variableRange' = e.variableRange
    /\ outcome' = e.outcome

\* The decoder reads one instruction and raises its event (it stops at the
\* first outcome that breaks the compilation off).  In the
\* preprocess pass the instruction is any that keeps the body valid and
\* leaves room to close the open blocks; the emit pass reads the same body
\* again.  An initializer expression is read once, it holds constant
\* instructions only.  A producer that consumed the local.set behind it moves the reader
\* past both.
Read(instr) ==
    LET fresh == pass \in {"preprocess", "initexpr"}
        offset == IF fresh THEN Len(prog) + 1 ELSE pc
        next == IF ~fresh /\ pc < Len(prog) THEN prog[pc + 1] ELSE NoInstr
        step(e, v1, v2) ==
            /\ ctrl # <<>>
            /\ pass \in {"preprocess", "emit", "initexpr"}
            /\ pass = "initexpr" => instr.op \in {"i32.const", "end"}
            /\ IF fresh
               THEN /\ Len(prog) < maxBody
                    /\ v1.ok
                    /\ Len(prog) + 1 + Len(v1.ctrl) <= maxBody
               ELSE /\ pc <= Len(prog)
                    /\ prog[pc] = instr
            /\ prog' = IF fresh THEN Append(prog, instr) ELSE prog
            /\ pc' = IF fresh THEN pc ELSE IF e.skip THEN pc + 2 ELSE pc + 1
            /\ vals' = v2.vals
            /\ ctrl' = v2.ctrl
            /\ Commit(e)
            /\ UNCHANGED <<fn, maxBody, pass>>
        check(e, v1) == step(e, v1, IF e.skip THEN validate(v1, next, localTypes) ELSE v1)
    IN check(dispatch(Reader(offset, next), instr),
             validate([ok |-> TRUE, vals |-> vals, ctrl |-> ctrl], instr, localTypes))

I32Const(value) ==
    /\ outcome = ""
    /\ Read(Instr("i32.const", value, SigVoid))

LocalGet(localIndex) ==
    /\ outcome = ""
    /\ Read(Instr("local.get", localIndex, SigVoid))

LocalSet(localIndex) ==
    /\ outcome = ""
    /\ Read(Instr("local.set", localIndex, SigVoid))

LocalTee(localIndex) ==
    /\ outcome = ""
    /\ Read(Instr("local.tee", localIndex, SigVoid))

Drop ==
    /\ outcome = ""
    /\ Read(Instr("drop", 0, SigVoid))

I32Add ==
    /\ outcome = ""
    /\ Read(Instr("i32.add", 0, SigVoid))

I32Eqz ==
    /\ outcome = ""
    /\ Read(Instr("i32.eqz", 0, SigVoid))

Block(sig) ==
    /\ outcome = ""
    /\ Read(Instr("block", 0, sig))

Loop(sig) ==
    /\ outcome = ""
    /\ Read(Instr("loop", 0, sig))

If(sig) ==
    /\ outcome = ""
    /\ Read(Instr("if", 0, sig))

Else ==
    /\ outcome = ""
    /\ Read(Instr("else", 0, SigVoid))

Try(sig) ==
    /\ outcome = ""
    /\ Read(Instr("try", 0, sig))

\* call of the function with index `index`, whose type is sig.
CallExpr(index, sig) ==
    /\ outcome = ""
    /\ Read(Instr("call", index, sig))

\* catch of the tag with index tagIndex, whose signature is sig.
Catch(tagIndex, sig) ==
    /\ outcome = ""
    /\ Read(Instr("catch", tagIndex, sig))

CatchAll ==
    /\ outcome = ""
    /\ Read(Instr("catch_all", 0, SigVoid))

EndExpr ==
    /\ outcome = ""
    /\ Read(Instr("end", 0, SigVoid))

Br(depth) ==
    /\ outcome = ""
    /\ Read(Instr("br", depth, SigVoid))

BrIf(depth) ==
    /\ outcome = ""
    /\ Read(Instr("br_if", depth, SigVoid))

BrTableExpr(depth) ==
    /\ outcome = ""
    /\ Read(Instr("br_table", depth, SigVoid))

Return ==
    /\ outcome = ""
    /\ Read(Instr("return", 0, SigVoid))

UnreachableExpr ==
    /\ outcome = ""
    /\ Read(Instr("unreachable", 0, SigVoid))

\* The body has been read once: the emit pass starts.
OnEndPreprocess ==
    /\ outcome = ""
    /\ pass = "preprocess"
    /\ ctrl = <<>>
    /\ pass' = "emit"
    /\ pc' = 1
    /\ vals' = <<>>
    /\ ctrl' = <<Frame("func", [isIndex |-> TRUE, ret |-> "Index", param |-> <<>>,
                                result |-> fn.result], 0)>>
    /\ Commit(OnEndPreprocessHandler(Reader(Len(prog) + 1, NoInstr)))
    /\ UNCHANGED <<fn, maxBody, prog>>

\* The body has been read twice: the allocator runs and the function is done.
EndFunctionBody ==
    /\ outcome = ""
    /\ pass = "emit"
    /\ ctrl = <<>>
    /\ pass' = "done"
    /\ Commit(EndFunctionBodyHandler(Reader(Len(prog) + 1, NoInstr)))
    /\ UNCHANGED <<fn, maxBody, prog, pc, vals, ctrl>>

\* OnLocalDecl(decl_index, count, type): count locals of one kind get their
\* homes at the running stack size, which grows with each of them.
OnLocalDeclHandler(e, count, type) ==
    LET sz == valueStackAllocatedSize(type)
        size == Uint16(e.m_functionStackSizeSoFar + count * sz)
    IN [e EXCEPT !.fn.local = @ \o [i \in 1..count |-> type],
                 !.m_localInfo = @ \o [i \in 1..count |->
                     LocalInfo(type, Uint16(e.m_functionStackSizeSoFar + (i - 1) * sz))],
                 !.m_initialFunctionStackSize = Uint16(@ + count * sz),
                 !.m_functionStackSizeSoFar = size,
                 !.m_requiredStackSize = Max(@, size)]

OnLocalDecl(count, type) ==
    /\ outcome = ""
    /\ pass = "locals"
    /\ fn' = OnLocalDeclHandler(Reader(1, NoInstr), count, type).fn
    /\ Commit(OnLocalDeclHandler(Reader(1, NoInstr), count, type))
    /\ UNCHANGED <<maxBody, prog, pass, pc, vals, ctrl>>

\* OnStartPreprocess: PreprocessData::clear() gives every local an empty
\* usage record and empties the constant table.
OnStartPreprocess ==
    /\ outcome = ""
    /\ pass = "locals"
    /\ pass' = "preprocess"
    /\ Commit([Reader(1, NoInstr) EXCEPT
                  !.m_localVariableInfo = [i \in 1..Len(m_localInfo) |-> LocalVariableInfo],
                  !.m_constantData = <<>>])
    /\ UNCHANGED <<fn, maxBody, prog, pc, vals, ctrl>>

\* beginFunction: the members it sets; the new function has no code.
beginFunction(e, f) ==
    [e EXCEPT !.fn = f,
              !.m_localInfo = localInfoOf(f.param, 0),
              !.m_initialFunctionStackSize = paramStackSize(f.param),
              !.m_functionStackSizeSoFar = paramStackSize(f.param),
              !.m_requiredStackSize = paramStackSize(f.param),
              !.m_functionCatchInfo = <<>>,
              !.m_hasTryCatch = FALSE,
              !.byteCode = <<>>]

\* BeginDataSegment: after the code section the offset expression of a data
\* segment is compiled, in one pass, as a function of its own.
BeginDataSegment ==
    /\ outcome = ""
    /\ pass = "done"
    /\ ~fn.inInitExpr
    /\ pass' = "initexpr"
    /\ fn' = InitExprFunction("I32")
    /\ prog' = <<>>
    /\ pc' = 1
    /\ vals' = <<>>
    /\ ctrl' = <<Frame("func", [isIndex |-> TRUE, ret |-> "Index", param |-> <<>>,
                                result |-> <<"I32">>], 0)>>
    /\ Commit(beginFunction(Reader(1, NoInstr), InitExprFunction("I32")))
    /\ UNCHANGED maxBody

\* EndDataSegment: the expression has been read.
EndDataSegment ==
    /\ outcome = ""
    /\ pass = "initexpr"
    /\ ctrl = <<>>
    /\ pass' = "done"
    /\ Commit(endFunction(Reader(Len(prog) + 1, NoInstr)))
    /\ UNCHANGED <<fn, maxBody, prog, pc, vals, ctrl>>

\* ------------------------------------------ locals, constants, the allocator
LocalsFunctions ==
    {FunctionType(<<"I32", "I32">>, <<>>, <<"I32">>),
     FunctionType(<<"I32">>, <<"I32">>, <<"I32">>)}

InitLocals == \E f \in LocalsFunctions : InitFunction(f, MaxBodyLocals)

NextLocals ==
    \/ \E k \in 0..2 : LocalGet(k)
    \/ \E k \in 0..2 : LocalSet(k)
    \/ \E value \in 1..2 : I32Const(value)
    \/ Drop
    \/ EndExpr
    \/ OnEndPreprocess
    \/ EndFunctionBody

SpecLocals == InitLocals /\ [][NextLocals]_vars

\* ---- properties of the allocator
\* The entities the allocator tracks, as indices into variableRange (the map
\* also holds the entries its operator[] stored by accident).
Tracked == {i \in 1..Len(variableRange) : variableRange[i].type # "Void"}

AllocatorRan == pass = "done" /\ outcome = "" /\ fn.local # <<>>

StrictlyOverlap(a, b) == Max(a.start, b.start) < Min(a.end, b.end)

SlotsDisjoint(a, b) ==
    \/ a.pos + valueStackAllocatedSize(a.type) <= b.pos
    \/ b.pos + valueStackAllocatedSize(b.type) <= a.pos

\* C1: after the allocator has run, any two tracked entities whose live
\* intervals strictly overlap have slots whose byte ranges are disjoint.
AllocatedSlotsDisjoint ==
    AllocatorRan =>
        \A i, j \in Tracked :
            (i # j /\ StrictlyOverlap(variableRange[i], variableRange[j]))
                => SlotsDisjoint(variableRange[i], variableRange[j])

ParameterHomes == {m_localInfo[i].m_position : i \in 1..Len(fn.param)}

\* The operands of a record that the allocator rewrites.
SameWhereHome(before, after, homes) ==
    /\ before.dst \in homes => after.dst = before.dst
    /\ before.src0 \in homes => after.src0 = before.src0
    /\ before.src1 \in homes => after.src1 = before.src1
    /\ \A j \in 1..Len(before.tail) :
           before.tail[j] \in homes => after.tail[j] = before.tail[j]

\* C8: in a function with a declared local, every operand that referenced a
\* parameter's home offset before the allocator ran references the same
\* offset after the rewrite (the records keep their order behind the
\* prepended init records).
ParametersKeepHome ==
    [][(pass = "emit" /\ pass' = "done" /\ outcome' = "" /\ fn.local # <<>>) =>
          \A n \in 1..Len(byteCode) :
              SameWhereHome(byteCode[n],
                            byteCode'[n + Len(byteCode') - Len(byteCode)],
                            ParameterHomes)]_vars

\* Control flow of the byte code: the records that may execute right after
\* record n.
Successors(code, n) ==
    LET target == IndexOf((n - 1) * sizeofByteCode + code[n].off)
    IN (IF code[n].op \in {"Jump", "End", "Unreachable", "BrTable"} THEN {}
        ELSE {n + 1} \cap (1..Len(code)))
       \cup (IF code[n].op \in {"Jump", "JumpIfTrue", "JumpIfFalse", "BrTable"}
             THEN {target} \cap (1..Len(code)) ELSE {})

WritesOffset(code, h) == code.dst = h

ReadsOffset(code, h) ==
    code.src0 = h \/ code.src1 = h \/ \E j \in 1..Len(code.tail) : code.tail[j] = h

\* The records reachable from the first one along paths on which no record
\* before them writes offset h.
RECURSIVE Unwritten(_, _, _)
Unwritten(code, h, seen) ==
    LET more == {m \in 1..Len(code) :
                    \E n \in seen : ~WritesOffset(code[n], h) /\ m \in Successors(code, n)}
                \ seen
    IN IF more = {} THEN seen ELSE Unwritten(code, h, seen \cup more)

ReadBeforeWrite(code, h) ==
    code # <<>> /\ \E n \in Unwritten(code, h, {1}) : ReadsOffset(code[n], h)

\* C9: a declared local with a read that position 0 reaches without crossing
\* a write of it is flagged needs-init, and a zero constant of its kind that
\* targets its assigned slot is prepended to the byte code.
UninitialisedReadGetsInit ==
    [][(pass = "emit" /\ pass' = "done" /\ outcome' = "" /\ fn.local # <<>>) =>
          \A k \in (Len(fn.param) + 1)..Len(m_localInfo) :
              ReadBeforeWrite(byteCode, m_localInfo[k].m_position) =>
                  \E i \in 1..Len(variableRange') :
                      /\ variableRange'[i].originalPosition = m_localInfo[k].m_position
                      /\ variableRange'[i].type = m_localInfo[k].m_valueType
                      /\ variableRange'[i].needsInit
                      /\ \E n \in 1..(Len(byteCode') - Len(byteCode)) :
                             /\ byteCode'[n].op = InitOp(variableRange'[i].type)
                             /\ byteCode'[n].value = 0
                             /\ byteCode'[n].dst = variableRange'[i].pos]_vars

\* The retained constants among the tracked entities.
ConstantRanges ==
    {i \in Tracked : \E c \in 1..Len(m_constantData) :
                         variableRange[i].originalPosition = m_constantData[c].position}

ConstantsDisjointAtTransition ==
    pass = "emit" =>
        \A c, d \in 1..Len(m_constantData) :
            c # d =>
                \/ m_constantData[c].position
                       + valueStackAllocatedSize(m_constantData[c].type)
                       <= m_constantData[d].position
                \/ m_constantData[d].position
                       + valueStackAllocatedSize(m_constantData[d].type)
                       <= m_constantData[c].position

DirectFunctions == {FunctionType(<<"I32">>, <<"I32">>, <<>>)}

InitDirect == \E f \in DirectFunctions : InitFunction(f, MaxBodyDirect)

\* The bodies read in the preprocess pass hold an opcode at most n times.
Times(op) == Cardinality({i \in 1..Len(prog) : prog[i].op = op})

Room(op, n) == pass = "preprocess" => Times(op) < n

NextDirect ==
    \/ Room("local.get", DirectTwice) /\ LocalGet(0)
    \/ Room("local.set", DirectOnce) /\ LocalSet(0)
    \/ Room("i32.const", DirectTwice) /\ I32Const(7)
    \/ Room("drop", DirectOnce) /\ Drop
    \/ Room("if", DirectOnce) /\ If(SigVoid)
    \/ Room("else", DirectOnce) /\ Else
    \/ Room("br", DirectTwice) /\ \E depth \in 0..1 : Br(depth)
    \/ EndExpr
    \/ OnEndPreprocess
    \/ EndFunctionBody

SpecDirect == InitDirect /\ [][NextDirect]_vars

\* ---- properties of the emitted records
\* The records a step emits: those beyond the old end of the code and those
\* that replace an old record (a patched jump offset is no new record).
Emitted ==
    {n \in 1..Len(byteCode') :
        \/ n > Len(byteCode)
        \/ [byteCode'[n] EXCEPT !.off = 0] # [byteCode[n] EXCEPT !.off = 0]}

\* Which instructions of a body control can arrive at when the function
\* runs, every conditional branch taken both ways.  frames holds, for each
\* open block, whether its entry is reached and whether its end is reached
\* by a branch or by the end of the then-arm.
RECURSIVE Reached(_, _, _, _)
Reached(code, i, live, frames) ==
    IF i > Len(code) THEN <<>>
    ELSE LET op == code[i].op
             target == Len(frames) - code[i].a
             branch == IF live /\ target >= 1 /\ frames[target].kind # "loop"
                       THEN [frames EXCEPT ![target].exit = TRUE] ELSE frames
             top == Last(frames)
         IN <<live>> \o
            (IF op \in {"block", "loop", "if"}
             THEN Reached(code, i + 1, live,
                          Append(frames, [kind |-> op, entry |-> live, exit |-> FALSE]))
             ELSE IF op \in {"br", "br_table"} THEN Reached(code, i + 1, FALSE, branch)
             ELSE IF op = "br_if" THEN Reached(code, i + 1, live, branch)
             ELSE IF op \in {"return", "unreachable"}
             THEN Reached(code, i + 1, FALSE, frames)
             ELSE IF op = "else"
             THEN Reached(code, i + 1, top.entry,
                          [frames EXCEPT ![Len(frames)] =
                              [kind |-> "else", entry |-> top.entry,
                               exit |-> top.exit \/ live]])
             ELSE IF op = "end" /\ frames # <<>>
             THEN Reached(code, i + 1,
                          live \/ top.exit \/ (top.kind = "if" /\ top.entry),
                          Front(frames))
             ELSE Reached(code, i + 1, live, frames))

\* The emit pass is about to read an instruction that can run, and the value
\* stack holds the operands the instruction finds.
ReadsLiveCode ==
    /\ pass = "emit"
    /\ pass' = "emit"
    /\ outcome' = ""
    /\ [i \in 1..Len(m_vmStack) |-> m_vmStack[i].valueType] = vals
    /\ Reached(prog, 1, TRUE, <<>>)[pc]

\* The entries of the value stack that a step leaves where they are and that
\* refer to local k at its home offset.
PendingDirectReferences(k) ==
    {i \in 1..Min(Len(m_vmStack), Len(m_vmStack')) :
        /\ m_vmStack'[i] = m_vmStack[i]
        /\ m_vmStack[i].localIndex = k
        /\ m_vmStack[i].position = m_localInfo[k + 1].m_position}

\* C2: while an entry of the value stack refers to local k directly, by the
\* local's home offset, no record that writes that home offset is emitted (in
\* code that can run).
NoWriteUnderDirectReference ==
    [][ReadsLiveCode
          => \A n \in Emitted : \A k \in 0..(Len(m_localInfo) - 1) :
                 byteCode'[n].dst = m_localInfo[k + 1].m_position
                     => PendingDirectReferences(k) = {}]_vars

\* --------------------------------------------------------- the eqz fusion
FusionFunctions == {FunctionType(<<"I32">>, <<"I32">>, <<>>)}

InitFusion == \E f \in FusionFunctions : InitFunction(f, MaxBodyFusion)

NextFusion ==
    \/ LocalGet(0)
    \/ LocalSet(0)
    \/ I32Eqz
    \/ If(SigVoid)
    \/ BrIf(0)
    \/ EndExpr
    \/ OnEndPreprocess
    \/ EndFunctionBody

SpecFusion == InitFusion /\ [][NextFusion]_vars

\* ---- properties of the eqz fusion
\* A step of `if` or `br_if` takes the i32.eqz record at the end of the code
\* away.
FusesEqz ==
    /\ ReadsLiveCode
    /\ prog[pc].op \in {"if", "br_if"}
    /\ byteCode # <<>>
    /\ Last(byteCode).op = "I32Eqz"
    /\ Len(byteCode') >= Len(byteCode)
    /\ byteCode'[Len(byteCode)].op # "I32Eqz"

Inverse(op) == IF op = "JumpIfTrue" THEN "JumpIfFalse" ELSE "JumpIfTrue"

\* What the same handler emits when it may not fuse.
Unfused ==
    handler([Reader(pc, NoInstr) EXCEPT !.m_lastI32EqzPos = s_noI32Eqz],
            prog[pc]).byteCode

\* Local k is read at or after instruction `from`, before any write of it and
\* on the straight path from there, by an instruction whose value a record
\* consumes.
ReadLater(k, from) ==
    \E j \in from..(Len(prog) - 1) :
        /\ prog[j].op = "local.get"
        /\ prog[j].a = k
        /\ prog[j + 1].op # "drop"
        /\ \A i \in from..(j - 1) :
               /\ prog[i].op \notin {"br", "br_table", "return", "unreachable", "else"}
               /\ ~(prog[i].op \in {"local.set", "local.tee"} /\ prog[i].a = k)

\* C3: when `if` or `br_if` is fused with the i32.eqz before it, the emitted
\* conditional jump tests the source of the eqz with the opposite opcode, and
\* the destination of the removed eqz is not a local that is read afterwards
\* for the result of the eqz.
FusionKeepsEqzResult ==
    [][FusesEqz
          => /\ byteCode'[Len(byteCode)].op = Inverse(Unfused[Len(byteCode) + 1].op)
             /\ byteCode'[Len(byteCode)].src0 = Last(byteCode).src0
             /\ \A k \in 0..(Len(m_localInfo) - 1) :
                    m_localInfo[k + 1].m_position = Last(byteCode).dst
                        => ~ReadLater(k, pc')]_vars

\* ------------------------------------------------------ blocks and branches
BranchFunctions == {FunctionType(<<"I32">>, <<"I32">>, <<>>)}

BranchBlocks == {SigI32, SigIndex(<<"I32">>, <<"I32">>)}

InitBranch == \E f \in BranchFunctions : InitFunction(f, MaxBodyBranch)

NextBranch ==
    \/ LocalGet(0)
    \/ I32Const(5)
    \/ Drop
    \/ \E sig \in BranchBlocks : Block(sig)
    \/ If(SigI32)
    \/ Else
    \/ Br(0)
    \/ BrIf(0)
    \/ BrTableExpr(0)
    \/ Return
    \/ EndExpr
    \/ OnEndPreprocess
    \/ EndFunctionBody

SpecBranch == InitBranch /\ [][NextBranch]_vars

\* ---- properties of the exits of a block
\* The block the instruction at pc leaves, and the value stack its results
\* are on top of (the condition of br_if and br_table is popped first).
ExitBlock ==
    IF prog[pc].op \in {"end", "else"} THEN Last(m_blockInfo)
    ELSE m_blockInfo[Len(m_blockInfo) - prog[pc].a]

ExitValues ==
    IF prog[pc].op \in {"br_if", "br_table"} THEN Front(m_vmStack) ELSE m_vmStack

\* The emit pass handles an instruction through which control leaves a block
\* for the block's end.
LeavesBlock ==
    /\ ReadsLiveCode
    /\ m_shouldContinueToGenerateByteCode
    /\ m_blockInfo # <<>>
    /\ \/ prog[pc].op \in {"end", "else"}
       \/ /\ prog[pc].op \in {"br", "br_if", "br_table"}
          /\ prog[pc].a < Len(m_blockInfo)
          /\ ExitBlock.m_blockType # "Loop"

\* Where OnEndExpr pushes the i-th result entry of block b: the parameters
\* are popped off the restored stack and the results pushed in their place.
CanonicalResult(b, i) ==
    b.m_functionStackSizeSoFar - paramStackSize(b.m_returnValueType.param)
        + paramStackSize(SubSeq(b.m_returnValueType.result, 1, i - 1))

\* The entry v is at the offset, or the step emits the typed move that
\* brings it there.
StoredAt(v, offset) ==
    \/ v.position = offset
    \/ \E n \in Emitted :
           /\ byteCode'[n].op = MoveOp(v.valueType)
           /\ byteCode'[n].src0 = v.position
           /\ byteCode'[n].dst = offset

\* C4: on every exit from a block with results (end, else, br, br_if and
\* br_table) each result value is at the offset at which the block's result
\* entry is pushed after `end`, or the typed move to that offset is emitted on
\* the path.
ResultsAtCanonicalOffsets ==
    [][LeavesBlock
          => LET result == ExitBlock.m_returnValueType.result
                 first == Len(ExitValues) - Len(result)
             IN first >= 0 /\ \A i \in 1..Len(result) :
                    StoredAt(ExitValues[first + i], CanonicalResult(ExitBlock, i))]_vars

\* ---- properties of the fixups
\* The record a fixup names is of the fixup's kind and jumps to the end of
\* the code (the entry of a br_table counts from the start of its record).
Patched(f, code) ==
    LET n == IndexOf(f.m_position)
    IN /\ n \in 1..Len(code)
       /\ (n - 1) * sizeofByteCode + code[n].off = currentByteCodeSize(code)
       /\ code[n].op \in (CASE f.m_type = "IsJump" -> {"Jump"}
                            [] f.m_type = "IsJumpIf" -> {"JumpIfTrue", "JumpIfFalse"}
                            [] f.m_type = "IsBrTable" -> {"BrTable"})

\* A step in which `end` pops a block.
PopsBlock ==
    /\ pass \in {"preprocess", "emit"}
    /\ pass' = pass
    /\ outcome' = ""
    /\ Len(m_blockInfo') < Len(m_blockInfo)

\* C6: when `end` has popped a block, every jump, conditional jump and
\* br_table entry in the block's fixup list is patched to the end of the
\* block, on the early return of the handler as well.
FixupsPatchedAtEnd ==
    [][PopsBlock
          => LET fixups == Last(m_blockInfo).m_jumpToEndBrInfo
             IN \A i \in 1..Len(fixups) : Patched(fixups[i], byteCode')]_vars

\* `end` has just popped a block into whose end a jump and a conditional
\* jump were patched.
TwoKindsOfFixupPatched ==
    /\ pass = "emit"
    /\ outcome = ""
    /\ pc \in 2..Len(prog)
    /\ prog[pc - 1].op = "end"
    /\ \E n, m \in 1..Len(byteCode) :
           /\ byteCode[n].op = "Jump"
           /\ byteCode[m].op \in {"JumpIfTrue", "JumpIfFalse"}
           /\ (n - 1) * sizeofByteCode + byteCode[n].off = currentByteCodeSize(byteCode)
           /\ (m - 1) * sizeofByteCode + byteCode[m].off = currentByteCodeSize(byteCode)

\* --------------------------------------------------- loops with parameters
LoopFunctions == {FunctionType(<<"I32">>, <<>>, <<>>)}

InitLoop == \E f \in LoopFunctions : InitFunction(f, MaxBodyLoop)

NextLoop ==
    \/ LocalGet(0)
    \/ I32Const(5)
    \/ Drop
    \/ Loop(SigIndex(<<"I32">>, <<>>))
    \/ Br(0)
    \/ BrIf(0)
    \/ BrTableExpr(0)
    \/ EndExpr
    \/ OnEndPreprocess
    \/ EndFunctionBody

SpecLoop == InitLoop /\ [][NextLoop]_vars

\* ---- properties of the back edges
\* The emit pass handles a branch to a loop that has parameters.
BranchesToLoop ==
    /\ ReadsLiveCode
    /\ m_shouldContinueToGenerateByteCode
    /\ prog[pc].op \in {"br", "br_if", "br_table"}
    /\ prog[pc].a < Len(m_blockInfo)
    /\ ExitBlock.m_blockType = "Loop"
    /\ ExitBlock.m_returnValueType.param # <<>>

\* The slot the loop body reads its i-th parameter from: the entry the
\* constructor of BlockInfo left in the block's copy of the value stack.
CanonicalParameter(b, i) ==
    b.m_vmStack[Len(b.m_vmStack) - Len(b.m_returnValueType.param) + i].position

\* The entry v is at the offset, or the step emits the typed move that
\* brings it there and, behind the move, the jump.
MovedBeforeJump(v, offset) ==
    \/ v.position = offset
    \/ \E n, j \in Emitted :
           /\ byteCode'[n].op = MoveOp(v.valueType)
           /\ byteCode'[n].src0 = v.position
           /\ byteCode'[n].dst = offset
           /\ n < j
           /\ byteCode'[j].op = "Jump"

\* C5: a br, br_if or br_table entry that targets a loop with parameters
\* emits, before the jump, the typed moves that bring the branch arguments to
\* the slots of the loop's parameters.
LoopParametersMovedBeforeJump ==
    [][BranchesToLoop
          => LET param == ExitBlock.m_returnValueType.param
                 first == Len(ExitValues) - Len(param)
             IN first >= 0 /\ \A i \in 1..Len(param) :
                    MovedBeforeJump(ExitValues[first + i],
                                    CanonicalParameter(ExitBlock, i))]_vars

\* ------------------------------------------------------- stack discipline
StackFunctions == {FunctionType(<<"I32">>, <<"I32">>, <<>>)}

InitStack == \E f \in StackFunctions : InitFunction(f, MaxBodyStack)

NextStack ==
    \/ Room("local.get", StackTwice) /\ LocalGet(0)
    \/ Room("local.tee", StackOnce) /\ LocalTee(0)
    \/ Room("i32.const", StackOnce) /\ I32Const(7)
    \/ Room("i32.add", StackOnce) /\ I32Add
    \/ Room("drop", StackOnce) /\ Drop
    \/ Room("if", StackOnce) /\ If(SigVoid)
    \/ Room("else", StackOnce) /\ Else
    \/ Room("br", StackOnce) /\ \E depth \in 0..1 : Br(depth)
    \/ Room("return", StackOnce) /\ Return
    \/ Room("unreachable", StackOnce) /\ UnreachableExpr
    \/ EndExpr
    \/ OnEndPreprocess
    \/ EndFunctionBody

SpecStack == InitStack /\ [][NextStack]_vars

\* The kinds of the entries of a value stack, bottom first.
Kinds(stack) == [i \in 1..Len(stack) |-> stack[i].valueType]

\* A step in which the decoder reads an instruction and raises its event.
HandlesOpcode ==
    /\ pass \in {"preprocess", "emit"}
    /\ pass' = pass
    /\ outcome' = ""
    /\ \/ m_shouldContinueToGenerateByteCode
       \/ m_shouldContinueToGenerateByteCode'

\* Control can arrive at the instruction the step reads, and behind the
\* instructions the step reads, when the function runs.
RunsInto ==
    IF pass = "preprocess" THEN Reached(prog', 1, TRUE, <<>>)[Len(prog')]
    ELSE Reached(prog, 1, TRUE, <<>>)[pc]

RunsOn ==
    LET body == IF pass = "preprocess" THEN prog' ELSE prog
        at == IF pass = "preprocess" THEN Len(prog') + 1 ELSE pc'
    IN Reached(Append(body, NoInstr), 1, TRUE, <<>>)[at]

\* C7: after each opcode handler, where the operand-type stack of the
\* validation is determined (the innermost frame is not unreachable) and
\* control can arrive, the kinds on the shadow value stack equal that
\* operand-type stack; and the handler of the function's final end, where
\* control can arrive at it, finds exactly the result kinds of the function on
\* the shadow value stack.
ShadowStackFollowsValidation ==
    [][HandlesOpcode =>
          /\ (ctrl' # <<>> /\ ~Last(ctrl').unreachable /\ RunsOn)
                => Kinds(m_vmStack') = vals'
          /\ (ctrl' = <<>> /\ m_shouldContinueToGenerateByteCode /\ RunsInto)
                => Kinds(m_vmStack) = fn.result]_vars


\* ------------------------------------------------------- the constant pool
ConstFunctions == {FunctionType(<<"I32">>, <<"I32">>, <<>>)}

InitConst == \E f \in ConstFunctions : InitFunction(f, MaxBodyConst)

NextConst ==
    \/ \E value \in 1..2 : I32Const(value)
    \/ LocalSet(0)
    \/ I32Add
    \/ Drop
    \/ EndExpr
    \/ OnEndPreprocess
    \/ EndFunctionBody
    \/ BeginDataSegment
    \/ EndDataSegment

SpecConst == InitConst /\ [][NextConst]_vars

\* The offsets of the retained constants with payload value.
RetainedSlots(value) ==
    {m_constantData[i].position : i \in {j \in 1..Len(m_constantData) :
        m_constantData[j].value = value /\ m_constantData[j].type = "I32"}}

\* The emit pass hands a constant with a retained payload to its handler.
ReadsRetainedConstant ==
    /\ pass = "emit"
    /\ pass' = "emit"
    /\ outcome' = ""
    /\ m_shouldContinueToGenerateByteCode
    /\ prog[pc].op = "i32.const"
    /\ RetainedSlots(prog[pc].a) # {}

\* An initializer expression hands a constant to its handler.
ReadsInitExprConstant ==
    /\ pass = "initexpr"
    /\ pass' = "initexpr"
    /\ outcome' = ""
    /\ Last(prog').op = "i32.const"

\* C11: in the emit pass a constant whose payload is retained pushes a shadow
\* entry at the one slot of that payload and emits no record, so two such
\* constants share the offset; a constant of an initializer expression leaves
\* the pool as it is, and is emitted as a record that writes the slot it pushes.
RetainedConstantsShareSlot ==
    [][/\ ReadsRetainedConstant =>
              /\ byteCode' = byteCode
              /\ Cardinality(RetainedSlots(prog[pc].a)) = 1
              /\ Len(m_vmStack') = Len(m_vmStack) + 1
              /\ SubSeq(m_vmStack', 1, Len(m_vmStack)) = m_vmStack
              /\ Last(m_vmStack').position \in RetainedSlots(prog[pc].a)
       /\ ReadsInitExprConstant =>
              /\ m_constantData' = m_constantData
              /\ Len(byteCode') = Len(byteCode) + 1
              /\ Last(byteCode').op = "Const32"
              /\ Last(byteCode').value = Last(prog').a
              /\ Len(m_vmStack') = Len(m_vmStack) + 1
              /\ Last(m_vmStack').position = Last(byteCode').dst
              /\ Last(m_vmStack').position = Last(m_vmStack').nonOptimizedPosition]_vars

\* Two entries of the value stack share the slot of a retained constant.
TwoEntriesShareRetainedSlot ==
    /\ pass = "emit"
    /\ \E i, j \in 1..Len(m_vmStack) :
          /\ i < j
          /\ m_vmStack[i].position = m_vmStack[j].position
          /\ \E k \in 1..Len(m_constantData) :
                m_constantData[k].position = m_vmStack[i].position


\* ------------------------------------------------- retention of constants
PoolFunctions == {FunctionType(<<>>, <<>>, <<>>)}

InitPool == \E f \in PoolFunctions : InitFunction(f, MaxBodyPool)

\* The payloads of the constants read so far.
Payloads == {prog[i].a : i \in {j \in 1..Len(prog) : prog[j].op = "i32.const"}}

\* The bodies are sequences of `i32.const v; drop`, the payloads numbered in
\* the order of their first occurrence.
NextPayload(value) ==
    pass = "preprocess" => vals = <<>> /\ value <= Cardinality(Payloads) + 1

NextPool ==
    \/ \E value \in 1..PoolValues : NextPayload(value) /\ I32Const(value)
    \/ Drop
    \/ EndExpr
    \/ OnEndPreprocess
    \/ EndFunctionBody

SpecPool == InitPool /\ [][NextPool]_vars

\* How often the body refers to a constant with payload value.
Frequency(value) ==
    Cardinality({i \in 1..Len(prog) : prog[i].op = "i32.const" /\ prog[i].a = value})

Retained == {m_constantData[i].value : i \in 1..Len(m_constantData)}

\* C12: when the emit pass starts, the retained constants are the
\* maxConstantData most frequently referenced constants of the body (all of
\* them when there are fewer), and the prelude holds one record for each.
MostFrequentConstantsRetained ==
    (pass = "emit" /\ pc = 1) =>
        /\ Cardinality(Retained) = Min(maxConstantData, Cardinality(Payloads))
        /\ Len(m_constantData) = Cardinality(Retained)
        /\ \A r \in Retained : \A u \in Payloads \ Retained :
               Frequency(r) >= Frequency(u)
        /\ Len(byteCode) = Len(m_constantData)
        /\ \A i \in 1..Len(byteCode) :
               /\ byteCode[i].op = "Const32"
               /\ byteCode[i].value = m_constantData[i].value
               /\ byteCode[i].dst = m_constantData[i].position


\* ----------------------------------------------------------- slot reuse
ReuseFunctions ==
    {FunctionType(<<>>, <<>>, <<"I32", "I32">>),
     FunctionType(<<"I32">>, <<>>, <<"I32">>)}

InitReuse == \E f \in ReuseFunctions : InitFunction(f, MaxBodyReuse)

NextReuse ==
    \/ Room("i32.const", ReuseTwice) /\ I32Const(1)
    \/ Room("local.set", ReuseTwice) /\ \E k \in 0..1 : LocalSet(k)
    \/ Room("local.get", ReuseTwice) /\ \E k \in 0..1 : LocalGet(k)
    \/ Room("i32.eqz", ReuseTwice) /\ I32Eqz
    \/ Room("drop", ReuseTwice) /\ Drop
    \/ EndExpr
    \/ OnEndPreprocess
    \/ EndFunctionBody

SpecReuse == InitReuse /\ [][NextReuse]_vars

\* The entries of variableRange that stand for the declared locals, which
\* the map holds under their home offsets.
DeclaredLocals ==
    LET homes == localInfoOf(fn.param \o fn.local, 0)
    IN {i \in Tracked : \E k \in (Len(fn.param) + 1)..Len(homes) :
            variableRange[i].originalPosition = homes[k].m_position}

\* Range a ends before range b starts, and both are live.
LiveOneAfterTheOther(a, b) ==
    /\ a.start # a.end
    /\ b.start # b.end
    /\ a.start < a.end
    /\ a.end < b.start
    /\ b.start < b.end

\* C13: after the allocator has run, two declared locals of the same kind of
\* which one is live only before the other have the same slot offset.
DisjointLocalsShareSlot ==
    AllocatorRan =>
        \A i, j \in DeclaredLocals :
            (/\ variableRange[i].type = variableRange[j].type
             /\ LiveOneAfterTheOther(variableRange[i], variableRange[j]))
                => variableRange[i].pos = variableRange[j].pos


\* ------------------------------------------------------------- frame size
\* The stack offsets a record names.
OperandOffsets(code) ==
    ({code.dst, code.src0, code.src1} \ {SIZE_MAX})
        \cup {code.tail[j] : j \in 1..Len(code.tail)}

ReadsBrToFunction ==
    /\ pass \in {"preprocess", "emit"}
    /\ pass' = pass
    /\ outcome = ""
    /\ m_shouldContinueToGenerateByteCode
    /\ IF pass = "preprocess"
       THEN prog' # prog /\ Last(prog') = Instr("br", Len(m_blockInfo), SigVoid)
       ELSE pc' # pc /\ prog[pc] = Instr("br", Len(m_blockInfo), SigVoid)
    /\ RunsInto

\* What the handler of `return` makes of the state the step starts in.
ReturnInstead ==
    OnReturnExpr(Reader(IF pass = "preprocess" THEN Len(prog) + 1 ELSE pc, NoInstr))

\* C16: `br depth` with depth equal to the number of open blocks leaves the
\* emitter as `return` in the same state does: the same code (the same End
\* record), the same shadow value stack and generation stopped in the same
\* way, whatever the number of open blocks.
BrToFunctionActsLikeReturn ==
    [][(ReadsBrToFunction /\ ReturnInstead.outcome = "") =>
          /\ outcome' = ""
          /\ byteCode' = ReturnInstead.byteCode
          /\ m_vmStack' = ReturnInstead.m_vmStack
          /\ m_shouldContinueToGenerateByteCode'
                = ReturnInstead.m_shouldContinueToGenerateByteCode
          /\ m_resumeGenerateByteCodeAfterNBlockEnd'
                = ReturnInstead.m_resumeGenerateByteCodeAfterNBlockEnd
          /\ m_blockInfo' = ReturnInstead.m_blockInfo]_vars


\* ------------------------------------------------------- generation stopped
\* The instruction the step reads, NoInstr when the step reads none.
InstrRead ==
    IF pass \notin {"preprocess", "emit"} \/ pass' # pass THEN NoInstr
    ELSE IF pass = "preprocess"
    THEN IF prog' # prog THEN Last(prog') ELSE NoInstr
    ELSE IF pc' # pc THEN prog[pc] ELSE NoInstr

\* The step raises the event of a branch, a return or an unreachable while
\* generation is on.
HandlesExit ==
    /\ InstrRead.op \in {"br", "br_table", "return", "unreachable"}
    /\ m_shouldContinueToGenerateByteCode
    /\ outcome' = ""

\* The instruction to read lies behind an exit of a block that is still open:
\* the block the exit stands in has not seen its end or else since.
BehindExit ==
    /\ pass \in {"preprocess", "emit"}
    /\ outcome = ""
    /\ \E d \in 1..Len(ctrl) : ctrl[d].unreachable

\* C15: the handler of br, br_table, return or unreachable leaves generation
\* stopped, with the innermost open block (if any) marked stopped and
\* restore-at-end, and generation stays stopped until the end or else of the
\* block the instruction stands in (the end of the function when none is
\* open).
StoppedUntilBlockEnd ==
    /\ [][HandlesExit =>
            /\ ~m_shouldContinueToGenerateByteCode'
            /\ m_blockInfo' # <<>> =>
                  /\ Last(m_blockInfo').m_byteCodeGenerationStopped
                  /\ Last(m_blockInfo').m_shouldRestoreVMStackAtEnd]_vars
    /\ [](BehindExit => ~m_shouldContinueToGenerateByteCode)


\* ------------------------------------------------ live ranges and branches
ClosureFunctions == {FunctionType(<<"I32">>, <<>>, <<"I32">>)}

InitClosure == \E f \in ClosureFunctions : InitFunction(f, MaxBodyClosure)

NextClosure ==
    \/ Room("i32.const", ClosureOnce) /\ I32Const(1)
    \/ Room("local.get", ClosureTwice) /\ \E k \in 0..1 : LocalGet(k)
    \/ Room("local.set", ClosureOnce) /\ \E k \in 0..1 : LocalSet(k)
    \/ Room("drop", ClosureOnce) /\ Drop
    \/ Room("block", ClosureOnce) /\ Block(SigVoid)
    \/ Room("br", ClosureOnce) /\ Br(0)
    \/ Room("br_if", ClosureOnce) /\ BrIf(0)
    \/ EndExpr
    \/ OnEndPreprocess
    \/ EndFunctionBody

SpecClosure == InitClosure /\ [][NextClosure]_vars

\* The step in which the allocator computes the live intervals of a function
\* with declared locals.
FindsRanges ==
    /\ pass = "emit"
    /\ pass' = "done"
    /\ outcome' = ""
    /\ fn.local # <<>>

\* Byte position of the n-th record.
PositionOf(n) == (n - 1) * sizeofByteCode

\* The records of the br_if instructions that branch forward to the end of
\* a block: without fused comparisons and without if, every JumpIfTrue is
\* the record of a br_if.
BranchesToBlockEnd ==
    {n \in 1..Len(byteCode) : byteCode[n].op = "JumpIfTrue" /\ byteCode[n].off > 0}

\* The final interval of the entity at `offset` contains [from, to].
FinalIntervalContains(offset, from, to) ==
    \A i \in 1..Len(variableRange') :
        (variableRange'[i].type # "Void"
            /\ variableRange'[i].originalPosition = offset)
          => variableRange'[i].start <= from /\ to <= variableRange'[i].end

\* C17: when a branch at position p targets block B, the final live interval
\* of every tracked entity that the record at p reads contains [p, end of B].
BranchOperandsLiveToBlockEnd ==
    [][FindsRanges =>
          \A n \in BranchesToBlockEnd :
              FinalIntervalContains(byteCode[n].src0, PositionOf(n),
                                    PositionOf(n) + byteCode[n].off)]_vars


\* ---------------------------------------------------- width of stack sizes
\* The function () -> () before its locals are declared
\* (BeginFunctionBody).
InitDecl ==
    /\ fn = FunctionType(<<>>, <<>>, <<>>)
    /\ maxBody = MaxBodyDecl
    /\ prog = <<>>
    /\ pass = "locals"
    /\ pc = 1
    /\ vals = <<>>
    /\ ctrl = <<Frame("func", [isIndex |-> TRUE, ret |-> "Index", param |-> <<>>,
                               result |-> <<>>], 0)>>
    /\ m_localInfo = <<>>
    /\ m_initialFunctionStackSize = 0
    /\ m_functionStackSizeSoFar = 0
    /\ m_requiredStackSize = 0
    /\ m_vmStack = <<>>
    /\ m_blockInfo = <<>>
    /\ m_catchInfo = <<>>
    /\ m_functionCatchInfo = <<>>
    /\ m_hasTryCatch = FALSE
    /\ byteCode = <<>>
    /\ m_lastI32EqzPos = s_noI32Eqz
    /\ m_shouldContinueToGenerateByteCode = TRUE
    /\ m_resumeGenerateByteCodeAfterNBlockEnd = 0
    /\ m_localVariableInfo = <<>>
    /\ m_constantData = <<>>
    /\ variableRange = <<>>
    /\ outcome = ""

\* As many i64 locals as fit below the largest stack offset.
ManyLocals == StackOffsetMax \div valueStackAllocatedSize("I64")

NextDecl ==
    \/ \E type \in {"I32", "I64"} :
           /\ Len(fn.local) % ManyLocals < MaxSmallDecls
           /\ OnLocalDecl(1, type)
    \/ Len(fn.local) < ManyLocals /\ OnLocalDecl(ManyLocals, "I64")
    \/ OnStartPreprocess
    \/ I32Const(1)
    \/ Drop
    \/ EndExpr
    \/ OnEndPreprocess

SpecDecl == InitDecl /\ [][NextDecl]_vars

\* The bytes that the declared locals, the retained constants (once they
\* have their slots) and the values on the shadow stack take.
DeclaredBytes ==
    LET wide == Cardinality({i \in 1..Len(fn.local) : fn.local[i] = "I64"})
    IN valueStackAllocatedSize("I64") * wide
           + valueStackAllocatedSize("I32") * (Len(fn.local) - wide)

ConstantBytes ==
    IF pass = "emit" THEN valueStackAllocatedSize("I32") * Len(m_constantData) ELSE 0

PushedBytes == valueStackAllocatedSize("I32") * Len(m_vmStack)

\* C18: the stack sizes are the sizes of what has been declared, retained
\* and pushed (they never wrap around), and once these exceed the largest
\* stack offset the compilation has failed with "function stack too large".
StackSizeNeverWraps ==
    (pass \in {"locals", "preprocess", "emit"} /\ ~fn.inInitExpr) =>
        /\ outcome = "" =>
              /\ m_initialFunctionStackSize = DeclaredBytes + ConstantBytes
              /\ m_functionStackSizeSoFar
                    = DeclaredBytes + ConstantBytes + PushedBytes
        /\ DeclaredBytes + ConstantBytes + PushedBytes > StackOffsetMax
              => outcome = "function stack too large"


\* --------------------------------------------------- empty shadow stack
\* How many entries the handler of an opcode takes from the shadow stack.
EntriesTaken(op) ==
    CASE op \in {"drop", "local.set", "local.tee", "i32.eqz", "if", "br_if",
                 "br_table"} -> 1
      [] op = "i32.add" -> 2
      [] OTHER -> 0

\* The step raises the event of an opcode whose handler takes more entries
\* than the shadow stack holds.
HandlerUnderflows ==
    /\ outcome = ""
    /\ m_shouldContinueToGenerateByteCode
    /\ Len(m_vmStack) < EntriesTaken(InstrRead.op)

\* The handler has read or removed an element of the empty vector.
EmptyStackAccess ==
    outcome \in {"pop of an empty value stack", "peek of an empty value stack"}

\* C19: with assertions compiled out, a handler that finds the shadow stack
\* short of the entries it takes stops the emission of the function with an
\* error and an empty body; no handler reads or removes an element of an
\* empty stack, and none emits a record after the error.
UnderflowStopsEmission ==
    /\ [][HandlerUnderflows =>
            /\ outcome' # ""
            /\ ~EmptyStackAccess'
            /\ byteCode' = <<>>]_vars
    /\ []~EmptyStackAccess


\* ------------------------------------------------------- incrementing body
AddFunctions == {FunctionType(<<"I32">>, <<"I32">>, <<>>)}

InitAdd == \E f \in AddFunctions : InitFunction(f, MaxBodyAdd)

NextAdd ==
    \/ LocalGet(0)
    \/ \E value \in 1..2 : I32Const(value)
    \/ I32Add
    \/ EndExpr
    \/ OnEndPreprocess
    \/ EndFunctionBody

SpecAdd == InitAdd /\ [][NextAdd]_vars

\* local.get 0; i32.const 1; i32.add, closed by the end of the function.
IncrementBody ==
    <<Instr("local.get", 0, SigVoid), Instr("i32.const", 1, SigVoid),
      Instr("i32.add", 0, SigVoid), Instr("end", 0, SigVoid)>>

\* The function (i32) -> i32 with that body has been compiled.
IncrementCompiled ==
    /\ pass = "done"
    /\ outcome = ""
    /\ fn \in AddFunctions
    /\ prog = IncrementBody

NoMoveEmitted ==
    \A n \in 1..Len(byteCode) : byteCode[n].op \notin {"MoveI32", "MoveI64"}

\* C20 as stated: the code of the incrementing function holds the prelude
\* record const32(dst=4, value=1) and the record i32.add(src0=0, src1=4,
\* dst=0), no move, and the required stack size is 8.
IncrementInPlace ==
    IncrementCompiled =>
        /\ \E n \in 1..Len(byteCode) :
              byteCode[n] = ByteCode("Const32", 4, SIZE_MAX, SIZE_MAX, 0, <<>>, 1)
        /\ \E n \in 1..Len(byteCode) :
              byteCode[n] = ByteCode("I32Add", 0, 0, 4, 0, <<>>, 0)
        /\ NoMoveEmitted
        /\ m_requiredStackSize = 8

\* C20 as amended: the code of the incrementing function is the prelude
\* record const32(dst=4, value=1), the record i32.add(src0=0, src1=4, dst=8)
\* and the end record returning offset 8, with no move, and the required
\* stack size is 16.
IncrementAboveOperands ==
    IncrementCompiled =>
        /\ byteCode = <<ByteCode("Const32", 4, SIZE_MAX, SIZE_MAX, 0, <<>>, 1),
                        ByteCode("I32Add", 8, 0, 4, 0, <<>>, 0),
                        End(<<8>>)>>
        /\ NoMoveEmitted
        /\ m_requiredStackSize = 16

\* ------------------------------------------- i32.eqz feeding `br_if 0`
\* A step of `br_if 0` takes the i32.eqz record at the end of the code away.
FusesEqzIntoBrIf ==
    /\ FusesEqz
    /\ prog[pc].op = "br_if"
    /\ prog[pc].a = 0

BranchesBack ==
    /\ ReadsLiveCode
    /\ m_shouldContinueToGenerateByteCode
    /\ prog[pc].op \in {"br", "br_if", "br_table"}
    /\ prog[pc].a < Len(m_blockInfo)
    /\ ExitBlock.m_blockType = "Loop"

\* C22: every jump record that a branch to a loop emits (for br, behind the
\* skip-jump of br_if, and for the br that serves a br_table entry) holds a
\* relative offset which, added to the position of the jump record itself,
\* gives the recorded entry position of the loop, however many move records
\* the handler has emitted in front of the jump.
JumpLandsOnLoopEntry ==
    [][BranchesBack
          => \A n \in Emitted :
                 byteCode'[n].op = "Jump"
                     => PositionOf(n) + byteCode'[n].off = ExitBlock.m_position]_vars

\* ------------------------------------------ fall-through of a `br_if`
FallFunctions ==
    {FunctionType(<<"I32">>, <<"I32">>, <<>>), FunctionType(<<"I32">>, <<>>, <<>>)}

\* The signatures of the loops in the bodies of SpecFall.
FallLoops == {SigIndex(<<"I32">>, <<"I32">>), SigIndex(<<"I32">>, <<>>)}

InitFall == \E f \in FallFunctions : InitFunction(f, MaxBodyFall)

NextFall ==
    \/ Room("i32.const", FallOnce) /\ I32Const(5)
    \/ Room("local.get", FallTwice) /\ LocalGet(0)
    \/ Room("drop", FallOnce) /\ Drop
    \/ Room("i32.eqz", FallOnce) /\ I32Eqz
    \/ Room("loop", FallOnce) /\ \E sig \in FallLoops : Loop(sig)
    \/ Room("br_if", FallOnce) /\ \E depth \in 0..1 : BrIf(depth)
    \/ Room("br", FallOnce) /\ Br(0)
    \/ EndExpr
    \/ OnEndPreprocess
    \/ EndFunctionBody

SpecFall == InitFall /\ [][NextFall]_vars

\* The emit pass handles a br_if in code that is being generated.
HandlesBrIf ==
    /\ ReadsLiveCode
    /\ m_shouldContinueToGenerateByteCode
    /\ prog[pc].op = "br_if"

\* The records of the step that run only when the branch is taken: those
\* behind a skip-jump of the step and in front of the place it skips to.
TakenPathOnly ==
    {n \in Emitted :
        \E s \in Emitted :
            /\ byteCode'[s].op \in {"JumpIfTrue", "JumpIfFalse"}
            /\ s < n
            /\ PositionOf(n) < PositionOf(s) + byteCode'[s].off}

\* C23: behind a br_if that is not taken, the current offset of every entry
\* of the shadow stack names a slot that holds the entry's value: an entry
\* keeps the offset it had in front of the br_if unless a move of the step
\* that also runs on the fall-through path has brought its value to the new
\* offset.
FallThroughKeepsOffsets ==
    [][HandlesBrIf
          => /\ Len(m_vmStack') = Len(m_vmStack) - 1
             /\ \A i \in 1..Len(m_vmStack') :
                    \/ m_vmStack'[i].position = m_vmStack[i].position
                    \/ \E n \in Emitted \ TakenPathOnly :
                           /\ byteCode'[n].op = MoveOp(m_vmStack[i].valueType)
                           /\ byteCode'[n].src0 = m_vmStack[i].position
                           /\ byteCode'[n].dst = m_vmStack'[i].position]_vars

\* --------------------------------- what the eqz fusion leaves recorded
\* C24: when `if` or `br_if` is fused with the i32.eqz at the end of the
\* code, the code is cut back to the position of the eqz record and nothing
\* recorded lies behind that position: not the entry position of an open
\* block, and not the site of a registered fixup.
FusionCutsBehindNothingRecorded ==
    [][FusesEqz
          => LET cut == PositionOf(Len(byteCode))
             IN \A n \in 1..Len(m_blockInfo) :
                    /\ m_blockInfo[n].m_position <= cut
                    /\ \A i \in 1..Len(m_blockInfo[n].m_jumpToEndBrInfo) :
                           m_blockInfo[n].m_jumpToEndBrInfo[i].m_position <= cut]_vars

\* ------------------------------------------- the offsets `end` writes
\* C25 as stated: when `end` has popped a block, the offset field of every
\* fixup of the block (jump, conditional jump, br-table entry) is the
\* position of the block's end minus the site recorded for the fixup.
FixupOffsetIsEndMinusSite ==
    [][PopsBlock
          => LET fixups == Last(m_blockInfo).m_jumpToEndBrInfo
             IN \A i \in 1..Len(fixups) :
                    /\ IndexOf(fixups[i].m_position) \in 1..Len(byteCode')
                    /\ byteCode'[IndexOf(fixups[i].m_position)].off
                          = currentByteCodeSize(byteCode') - fixups[i].m_position]_vars

\* C25 as amended: when `end` has popped a block, the offset field of every
\* jump and conditional jump among its fixups is the position of the block's
\* end minus the recorded site, and the offset of every br-table entry is the
\* position of the block's end minus the position of the br-table record
\* that holds the entry (the recorded site less the entry's place in the
\* record); the record is of the fixup's kind, and its position plus the
\* offset is the position of the first record behind the block.
FixupOffsetIsEndMinusRecord ==
    [][PopsBlock
          => LET fixups == Last(m_blockInfo).m_jumpToEndBrInfo
                 end == currentByteCodeSize(byteCode')
             IN \A i \in 1..Len(fixups) :
                    LET site == fixups[i].m_position
                        n == IndexOf(site)
                    IN /\ n \in 1..Len(byteCode')
                       /\ CASE fixups[i].m_type = "IsJump" ->
                                  /\ byteCode'[n].op = "Jump"
                                  /\ byteCode'[n].off = end - site
                            [] fixups[i].m_type = "IsJumpIf" ->
                                  /\ byteCode'[n].op \in {"JumpIfTrue", "JumpIfFalse"}
                                  /\ byteCode'[n].off = end - site
                            [] fixups[i].m_type = "IsBrTable" ->
                                  /\ byteCode'[n].op = "BrTable"
                                  /\ byteCode'[n].off = end - (site - offsetOfDefault)
                       /\ PositionOf(n) + byteCode'[n].off = end]_vars

\* `end` has just closed a block and patched a br-table entry of it.
BrTableEntryPatched ==
    /\ pass = "emit"
    /\ outcome = ""
    /\ pc > 1
    /\ pc <= Len(prog)
    /\ prog[pc - 1].op = "end"
    /\ \E n \in 1..Len(byteCode) :
           /\ byteCode[n].op = "BrTable"
           /\ PositionOf(n) + byteCode[n].off = currentByteCodeSize(byteCode)

\* ------------------------------------------------------- the else arm
\* The handler of `else` runs: generation is on, or `else` turns it on again.
HandlesElse ==
    /\ pass \in {"preprocess", "emit"}
    /\ pass' = pass
    /\ outcome' = ""
    /\ InstrRead.op = "else"
    /\ \/ m_shouldContinueToGenerateByteCode
       \/ m_resumeGenerateByteCodeAfterNBlockEnd = 1

\* C26: `else` patches the conditional jump of its `if` so that it lands on
\* the first record of the else arm, which is the position behind the
\* then-arm's jump to the end where `else` emits one and never that jump
\* itself; `else` emits the jump to the end only if the then-arm has not
\* stopped generation.
ElseArmIsIfTarget ==
    [][HandlesElse
          => LET b == Last(m_blockInfo)
                 n == IndexOf(b.m_position)
                 elseArm == currentByteCodeSize(byteCode')
             IN /\ b.m_blockType = "IfElse"
                /\ n \in 1..Len(byteCode)
                /\ byteCode'[n].op \in {"JumpIfTrue", "JumpIfFalse"}
                /\ PositionOf(n) + byteCode'[n].off = elseArm
                /\ \A j \in Emitted :
                       byteCode'[j].op = "Jump"
                           => /\ ~b.m_byteCodeGenerationStopped
                              /\ j = Len(byteCode')
                              /\ PositionOf(n) + byteCode'[n].off
                                    = PositionOf(j) + sizeofByteCode
                              /\ Last(Last(m_blockInfo').m_jumpToEndBrInfo)
                                    = JumpToEndBrInfo("IsJump", PositionOf(j))]_vars

\* `else` has just emitted the then-arm's jump to the end and patched the
\* conditional jump of the `if` to the position behind it.
ElseBehindJumpToEnd ==
    /\ pass = "emit"
    /\ outcome = ""
    /\ pc > 1
    /\ prog[pc - 1].op = "else"
    /\ byteCode # <<>>
    /\ Last(byteCode).op = "Jump"
    /\ m_blockInfo # <<>>
    /\ IndexOf(Last(m_blockInfo).m_position) \in 1..Len(byteCode)
    /\ byteCode[IndexOf(Last(m_blockInfo).m_position)].op = "JumpIfFalse"
    /\ Last(m_blockInfo).m_position
          + byteCode[IndexOf(Last(m_blockInfo).m_position)].off
          = currentByteCodeSize(byteCode)

\* ------------------------------------------ the stack behind an `end`
\* The handler of `end` runs for an open block: generation is on, or `end`
\* turns it on again.
HandlesBlockEnd ==
    /\ pass \in {"preprocess", "emit"}
    /\ pass' = pass
    /\ outcome' = ""
    /\ InstrRead.op = "end"
    /\ m_blockInfo # <<>>
    /\ \/ m_shouldContinueToGenerateByteCode
       \/ m_resumeGenerateByteCodeAfterNBlockEnd = 1

\* `end` hands the stopped state of the block it closes on to the block
\* around it.
PropagatesStop ==
    /\ Last(m_blockInfo).m_byteCodeGenerationStopped
    /\ Last(m_blockInfo).m_jumpToEndBrInfo = <<>>

\* C27: behind an `end` that closes a block marked restore-at-end and does
\* not hand the stopped state on, the shadow stack is the stack recorded at
\* the block's entry without the entries of the block's parameters and with
\* one entry for each kind of result on top, each of these at its canonical
\* offset, and the running stack size is the size saved at the block's entry
\* less the widths of the parameters plus the widths of the results.
EndRestoresEntryStack ==
    [][HandlesBlockEnd /\ Last(m_blockInfo).m_shouldRestoreVMStackAtEnd
          /\ ~PropagatesStop
          => LET b == Last(m_blockInfo)
                 sig == b.m_returnValueType
                 kept == Len(b.m_vmStack) - Len(sig.param)
             IN /\ kept >= 0
                /\ Len(m_vmStack') = kept + Len(sig.result)
                /\ SubSeq(m_vmStack', 1, kept) = SubSeq(b.m_vmStack, 1, kept)
                /\ \A i \in 1..Len(sig.result) :
                       /\ m_vmStack'[kept + i].valueType = sig.result[i]
                       /\ m_vmStack'[kept + i].position
                             = m_vmStack'[kept + i].nonOptimizedPosition
                       /\ m_vmStack'[kept + i].nonOptimizedPosition
                             = b.m_functionStackSizeSoFar
                                  - sizeOfEntries(b.m_vmStack, kept + 1)
                                  + paramStackSize(SubSeq(sig.result, 1, i - 1))
                /\ m_functionStackSizeSoFar'
                      = b.m_functionStackSizeSoFar
                           - sizeOfEntries(b.m_vmStack, kept + 1)
                           + paramStackSize(sig.result)]_vars

\* `end` has just closed a block that takes a parameter and gives a result,
\* and the result is on the shadow stack.
ParameterReplacedByResult ==
    /\ pass = "emit"
    /\ outcome = ""
    /\ m_shouldContinueToGenerateByteCode
    /\ pc > 2
    /\ pc <= Len(prog)
    /\ prog[pc - 1].op = "end"
    /\ \E j \in 1..(pc - 2) :
           /\ prog[j].op = "block"
           /\ prog[j].sig.param # <<>>
           /\ prog[j].sig.result # <<>>
    /\ m_blockInfo = <<>>
    /\ Len(m_vmStack) = 1

\* ------------------------------------ `end` of a block that was stopped
\* The handler of `end` runs for a block in which generation was stopped.
EndsStoppedBlock ==
    /\ HandlesBlockEnd
    /\ Last(m_blockInfo).m_byteCodeGenerationStopped

\* C28: when `end` closes a block in which generation was stopped and which
\* has no fixup, the stopped state is handed outward: generation stays
\* stopped, the block around it (if there is one) is marked stopped and
\* restore-at-end, and no entry for a result is pushed; when the block has a
\* fixup, generation goes on behind the `end` with the stack restored.
\* Generation that is stopped is turned on again only by an `end` or `else`
\* (or the catch of a try block).
StoppedEndPropagatesOrResumes ==
    /\ [][EndsStoppedBlock
             => LET b == Last(m_blockInfo)
                    sig == b.m_returnValueType
                    kept == Len(b.m_vmStack) - Len(sig.param)
                IN /\ Len(m_blockInfo') = Len(m_blockInfo) - 1
                   /\ IF b.m_jumpToEndBrInfo = <<>>
                      THEN /\ ~m_shouldContinueToGenerateByteCode'
                           /\ byteCode' = byteCode
                           /\ Len(m_vmStack') <= Len(m_vmStack)
                           /\ m_vmStack' = SubSeq(m_vmStack, 1, Len(m_vmStack'))
                           /\ m_blockInfo' # <<>>
                                 => /\ m_vmStack' = m_vmStack
                                    /\ Last(m_blockInfo').m_byteCodeGenerationStopped
                                    /\ Last(m_blockInfo').m_shouldRestoreVMStackAtEnd
                                    /\ m_resumeGenerateByteCodeAfterNBlockEnd' = 1
                      ELSE /\ m_shouldContinueToGenerateByteCode'
                           /\ m_resumeGenerateByteCodeAfterNBlockEnd' = 0
                           /\ b.m_shouldRestoreVMStackAtEnd
                           /\ Len(m_vmStack') = kept + Len(sig.result)
                           /\ SubSeq(m_vmStack', 1, kept) = SubSeq(b.m_vmStack, 1, kept)
                           /\ m_blockInfo' = Front(m_blockInfo)]_vars
    /\ [][(/\ pass \in {"preprocess", "emit"}
           /\ pass' = pass
           /\ ~m_shouldContinueToGenerateByteCode
           /\ m_shouldContinueToGenerateByteCode')
              => InstrRead.op \in {"end", "else", "catch", "catch_all"}]_vars

\* `end` has just closed an inner block that a `return` had stopped and that
\* no branch targets, and the block around it is marked stopped.
StopHandedToOuterBlock ==
    /\ pass = "emit"
    /\ outcome = ""
    /\ pc > 2
    /\ prog[pc - 1].op = "end"
    /\ prog[pc - 2].op = "return"
    /\ \A j \in 1..(pc - 1) : prog[j].op \notin {"br", "br_if", "br_table", "if"}
    /\ \E j \in 1..(pc - 1) : prog[j].op = "block"
    /\ m_blockInfo # <<>>
    /\ Last(m_blockInfo).m_byteCodeGenerationStopped
    /\ Last(m_blockInfo).m_shouldRestoreVMStackAtEnd
    /\ ~m_shouldContinueToGenerateByteCode

\* ------------------------------------------------- canonical offsets
\* The widths of the entries of a value stack beneath entry i.
WidthsBeneath(stack, i) == sizeOfEntries(SubSeq(stack, 1, i - 1), 1)

\* C29: while a function body is read, behind every operation on the shadow
\* stack (push, push at the slot of a local or of a constant, pop, restore)
\* the canonical offset of each
\* entry is the initial stack size plus the widths of the entries beneath it,
\* and the running stack size is the initial stack size plus the widths of
\* all entries.
CanonicalOffsetsAreSums ==
    outcome = "" /\ pass \in {"preprocess", "emit"}
        => /\ \A i \in 1..Len(m_vmStack) :
                  m_vmStack[i].nonOptimizedPosition
                      = m_initialFunctionStackSize + WidthsBeneath(m_vmStack, i)
           /\ m_functionStackSizeSoFar
                 = m_initialFunctionStackSize + sizeOfEntries(m_vmStack, 1)

\* ------------------------------------------------------ the stack of blocks
TryFunctions == {FunctionType(<<"I32">>, <<>>, <<>>)}

\* The signature of tag 0 of the module of SpecTry.
TryTag == SigIndex(<<"I32">>, <<>>)

InitTry == \E f \in TryFunctions : InitFunction(f, MaxBodyTry)

NextTry ==
    \/ Room("try", TryTwice) /\ Try(SigVoid)
    \/ Room("catch", TryOnce) /\ Catch(0, TryTag)
    \/ Room("catch_all", TryOnce) /\ CatchAll
    \/ Room("block", TryOnce) /\ Block(SigVoid)
    \/ Room("loop", TryOnce) /\ Loop(SigVoid)
    \/ Room("if", TryOnce) /\ If(SigVoid)
    \/ Room("else", TryOnce) /\ Else
    \/ Room("local.get", TryOnce) /\ LocalGet(0)
    \/ Room("drop", TryOnce) /\ Drop
    \/ Room("br", TryTwice) /\ \E depth \in 0..1 : Br(depth)
    \/ EndExpr
    \/ OnEndPreprocess
    \/ EndFunctionBody

SpecTry == InitTry /\ [][NextTry]_vars

\* The step reads an instruction of the body and the body stays well.
ReadsOn ==
    /\ pass \in {"preprocess", "emit"}
    /\ pass' = pass
    /\ outcome' = ""

\* The handler of block, loop, if or try runs: generation is on.
HandlesBlockEntry ==
    /\ ReadsOn
    /\ InstrRead.op \in {"block", "loop", "if", "try"}
    /\ m_shouldContinueToGenerateByteCode

\* The handler of else, catch or catch_all runs: generation is on, or the
\* instruction turns it on again.
HandlesBlockArm ==
    /\ ReadsOn
    /\ InstrRead.op \in {"else", "catch", "catch_all"}
    /\ \/ m_shouldContinueToGenerateByteCode
       \/ m_resumeGenerateByteCodeAfterNBlockEnd = 1

\* The kind of the block record of an opcode.
BlockTypeOf(op) ==
    CASE op = "block" -> "Block"
      [] op = "loop" -> "Loop"
      [] op = "if" -> "IfElse"
      [] op = "try" -> "TryCatch"

\* C30: the block records form a strict stack: the handler of block, loop,
\* if or try puts exactly one record, of the opcode's kind, on top of the
\* records that are there; the handler of else, catch or catch_all leaves
\* the depth as it is; the handler of an `end` that finds a record takes
\* exactly the top record away, whether the block goes on behind the `end`
\* or hands its stopped state to the block around it.
BlocksFormStrictStack ==
    /\ [][HandlesBlockEntry
             => /\ Len(m_blockInfo') = Len(m_blockInfo) + 1
                /\ Front(m_blockInfo') = m_blockInfo
                /\ Last(m_blockInfo').m_blockType = BlockTypeOf(InstrRead.op)]_vars
    /\ [][HandlesBlockArm
             => /\ Len(m_blockInfo') = Len(m_blockInfo)
                /\ \A d \in 1..Len(m_blockInfo) :
                       m_blockInfo'[d].m_blockType = m_blockInfo[d].m_blockType]_vars
    /\ [][HandlesBlockEnd
             => /\ Len(m_blockInfo') = Len(m_blockInfo) - 1
                /\ \A d \in 1..Len(m_blockInfo') :
                       /\ m_blockInfo'[d].m_blockType = m_blockInfo[d].m_blockType
                       /\ m_blockInfo'[d].m_position = m_blockInfo[d].m_position]_vars

\* The emit pass has handled its first `end`, behind a br, and the `end` has
\* closed a try block with a catch inside another block and handed the
\* stopped state outward: the catch record is the function's, generation is
\* stopped and one block is left open.
StoppedTryClosedInBlock ==
    /\ pass = "emit"
    /\ outcome = ""
    /\ pc > 2
    /\ prog[pc - 1].op = "end"
    /\ prog[pc - 2].op = "br"
    /\ Cardinality({i \in 1..(pc - 1) : prog[i].op = "end"}) = 1
    /\ ~m_shouldContinueToGenerateByteCode
    /\ m_functionCatchInfo # <<>>
    /\ m_catchInfo = <<>>
    /\ Len(m_blockInfo) = 1

\* ------------------------------------------------ the shared unused slot
\* The step in which the allocator runs on the finished body.
AllocatorRuns ==
    /\ pass = "emit"
    /\ pass' = "done"
    /\ outcome' = ""
    /\ fn.local # <<>>

\* The entities the allocator has tracked in the step.
TrackedBehind == {i \in 1..Len(variableRange') : variableRange'[i].type # "Void"}

\* Entity i is read by a record of the body.
ReadByRecord(i) ==
    \E n \in 1..Len(byteCode) :
        ReadsOffset(byteCode[n], variableRange'[i].originalPosition)

\* C31: an entity (parameter, local or retained constant) that some record
\* of the body reads is not put into the unused element: the allocator does
\* not treat its range as empty, and its slot is disjoint from the slot of
\* every entity that sits in the unused element.
ReadEntitiesKeepOwnSlot ==
    [][AllocatorRuns
          => \A i \in TrackedBehind :
                 ReadByRecord(i)
                     => /\ ~isUnusedRange(variableRange'[i])
                        /\ \A j \in TrackedBehind \ {i} :
                               isUnusedRange(variableRange'[j])
                                   => SlotsDisjoint(variableRange'[i],
                                                    variableRange'[j])]_vars

\* ------------------------------------------- the first read of a parameter
\* The tracked entities that are parameters of the function.
ParameterEntries ==
    {i \in TrackedBehind : variableRange'[i].originalPosition \in ParameterHomes}

\* The records of the body that read offset h and that the first record
\* reaches along a path on which no record before them writes h.
FirstReads(h) ==
    IF byteCode = <<>> THEN {}
    ELSE {n \in Unwritten(byteCode, h, {1}) : ReadsOffset(byteCode[n], h)}

\* C32: the allocator flags no parameter as needing a zero-initialising
\* record, and in the code it leaves behind no record that runs in front of
\* a first read of a parameter writes the slot the parameter has been given,
\* from which the read takes its value.
FirstReadSeesArgument ==
    [][AllocatorRuns
          => \A i \in ParameterEntries :
                 LET h == variableRange'[i].originalPosition
                     slot == variableRange'[i].pos
                     shift == Len(byteCode') - Len(byteCode)
                 IN /\ ~variableRange'[i].needsInit
                    /\ \A n \in FirstReads(h) :
                           n + shift \in Unwritten(byteCode', slot, {1})]_vars

\* ------------------------------------------------- calls and the allocator
CallFunctions == {FunctionType(<<"I32">>, <<>>, <<"I32">>)}

\* The types of the functions of the module of SpecCall, by index from 0.
CalleeTypes ==
    <<SigIndex(<<>>, <<"I32">>), SigIndex(<<"I32">>, <<>>), SigIndex(<<"I32">>, <<"I32">>)>>

InitCall == \E f \in CallFunctions : InitFunction(f, MaxBodyCall)

NextCall ==
    \/ Room("call", CallTwice)
          /\ \E index \in 0..(Len(CalleeTypes) - 1) : CallExpr(index, CalleeTypes[index + 1])
    \/ Room("local.get", CallTwice) /\ \E k \in 0..1 : LocalGet(k)
    \/ Room("local.set", CallOnce) /\ \E k \in 0..1 : LocalSet(k)
    \/ Room("i32.const", CallOnce) /\ I32Const(7)
    \/ Room("drop", CallTwice) /\ Drop
    \/ EndExpr
    \/ OnEndPreprocess
    \/ EndFunctionBody

SpecCall == InitCall /\ [][NextCall]_vars

\* The home offsets of the locals and of the retained constants.
HomeOffsets ==
    {m_localInfo[i].m_position : i \in 1..Len(m_localInfo)}
        \cup {m_constantData[i].position : i \in 1..Len(m_constantData)}

\* The map of the allocator behind the collection pass over the body.
Collected == collectRanges(initialVariableRange(Reader(pc, NoInstr)), byteCode, 1)

\* C33: the collection pass leaves entries in the map for the home offsets
\* of the locals and retained constants only, every entry is of a concrete
\* value kind, and the allocator ends without running into an abort.
CollectionTracksHomesOnly ==
    [][(pass = "emit" /\ pass' = "done" /\ fn.local # <<>>)
          => /\ DOMAIN Collected = HomeOffsets
             /\ \A k \in DOMAIN Collected : Collected[k].type # "Void"
             /\ outcome' # "RELEASE_ASSERT_NOT_REACHED"]_vars

\* ------------------------------------------------ the rewrite of the offsets
RewriteFunctions == {FunctionType(<<"I32">>, <<>>, <<"I32", "I32">>)}

InitRewrite == \E f \in RewriteFunctions : InitFunction(f, MaxBodyRewrite)

NextRewrite ==
    \/ Room("local.get", RewriteTwice) /\ \E k \in 0..1 : LocalGet(k)
    \/ Room("i32.eqz", RewriteOnce) /\ I32Eqz
    \/ Room("i32.const", RewriteOnce) /\ I32Const(7)
    \/ Room("drop", RewriteOnce) /\ Drop
    \/ Room("br_table", RewriteOnce) /\ BrTableExpr(0)
    \/ EndExpr
    \/ OnEndPreprocess
    \/ EndFunctionBody

SpecRewrite == InitRewrite /\ [][NextRewrite]_vars

\* What the rewrite is to make of operand offset x: the new offset of the
\* local or retained constant whose home x is, else x less the difference of
\* the high-water marks.
RewrittenOnce(x) ==
    IF x = SIZE_MAX THEN x
    ELSE IF x \in HomeOffsets
    THEN variableRange'[CHOOSE i \in TrackedBehind :
                            variableRange'[i].originalPosition = x].pos
    ELSE x - (m_initialFunctionStackSize - m_initialFunctionStackSize')

\* C34: the allocator rewrites every operand offset of every record exactly
\* once: the home offset of a local or retained constant becomes the new
\* offset of that entity, every other offset (a stack temporary) is lowered
\* once by the difference between the old and the new high-water mark; this
\* holds for the fixed operands, the condition of a br_table and every entry
\* of the offset array of an End or Call record.
RewritesEachOperandOnce ==
    [][AllocatorRuns
          => \A n \in 1..Len(byteCode) :
                 LET before == byteCode[n]
                     after == byteCode'[n + Len(byteCode') - Len(byteCode)]
                 IN /\ after.dst = RewrittenOnce(before.dst)
                    /\ after.src0 = RewrittenOnce(before.src0)
                    /\ after.src1 = RewrittenOnce(before.src1)
                    /\ Len(after.tail) = Len(before.tail)
                    /\ \A j \in 1..Len(before.tail) :
                           after.tail[j] = RewrittenOnce(before.tail[j])]_vars

\* --------------------------------------- forwarding into a `local.set`
\* The opcodes of the model that produce a value by a record of their own.
ValueProducers == {"i32.const", "i32.add", "i32.eqz"}

\* The number of operands an opcode of ValueProducers pops.
OperandsOf(op) == CASE op = "i32.add" -> 2 [] op = "i32.eqz" -> 1 [] OTHER -> 0

\* The emit pass handles a value-producing opcode that stands directly in
\* front of a local.set.
ProducerBeforeLocalSet ==
    /\ pass = "emit"
    /\ pass' = "emit"
    /\ outcome' = ""
    /\ m_shouldContinueToGenerateByteCode
    /\ pc < Len(prog)
    /\ pc' # pc
    /\ prog[pc].op \in ValueProducers
    /\ prog[pc + 1].op = "local.set"

\* The constant of the instruction is served from its slot in the prelude,
\* so that the instruction emits no record.
ServedFromPrelude(instr) ==
    /\ instr.op = "i32.const"
    /\ \E i \in 1..Len(m_constantData) :
           m_constantData[i].value = instr.a /\ m_constantData[i].type = "I32"

\* The reader behind the producer and the local.set, each handled on its own.
Unforwarded ==
    OnLocalSetExpr(handler(Reader(pc, NoInstr), prog[pc]), prog[pc + 1].a)

\* The step emits the producer's record with the local of the local.set as
\* destination and nothing else, passes over the local.set, and leaves the
\* shadow stack as the two instructions handled one by one would.
ForwardsIntoLocalSet ==
    /\ pc' = pc + 2
    /\ Len(byteCode') = Len(byteCode) + 1
    /\ Emitted = {Len(byteCode')}
    /\ Last(byteCode').op \notin {"MoveI32", "MoveI64"}
    /\ Last(byteCode').dst = m_localInfo[prog[pc + 1].a + 1].m_position
    /\ m_vmStack' = Unforwarded.m_vmStack
    /\ m_functionStackSizeSoFar' = Unforwarded.m_functionStackSizeSoFar

\* In the preprocess pass a producer pushes its result and passes over
\* nothing.
PreprocessForwardsNothing ==
    [][(/\ pass = "preprocess"
        /\ pass' = "preprocess"
        /\ outcome' = ""
        /\ m_shouldContinueToGenerateByteCode
        /\ InstrRead.op \in ValueProducers)
          => /\ Len(prog') = Len(prog) + 1
             /\ Len(m_vmStack') = Len(m_vmStack) - OperandsOf(InstrRead.op) + 1]_vars

CatchFunctions == {FunctionType(<<"I64", "I32">>, <<>>, <<>>)}

\* The signatures of the try blocks of SpecCatch.
CatchBlocks == {SigVoid, SigIndex(<<"I32">>, <<>>)}

InitCatch == \E f \in CatchFunctions : InitFunction(f, MaxBodyCatch)

NextCatch ==
    \/ Room("try", CatchOnce) /\ \E sig \in CatchBlocks : Try(sig)
    \/ Room("catch", CatchOnce) /\ Catch(0, TryTag)
    \/ Room("catch_all", CatchOnce) /\ CatchAll
    \/ Room("local.get", CatchTwice) /\ \E k \in 0..1 : LocalGet(k)
    \/ Room("drop", CatchTwice) /\ Drop
    \/ Room("br", CatchOnce) /\ Br(0)
    \/ EndExpr
    \/ OnEndPreprocess
    \/ EndFunctionBody

SpecCatch == InitCatch /\ [][NextCatch]_vars

\* The step handles the `end` of a try block and hands catch records to the
\* function.
HarvestsCatchRecords ==
    /\ ReadsOn
    /\ InstrRead.op = "end"
    /\ Len(m_functionCatchInfo') > Len(m_functionCatchInfo)

\* The step reads the `end` of a try block that has catch records, with
\* generation on.
EndsTryWithCatch ==
    /\ pass \in {"preprocess", "emit"}
    /\ pass' = pass
    /\ InstrRead.op = "end"
    /\ m_blockInfo # <<>>
    /\ Last(m_blockInfo).m_blockType = "TryCatch"
    /\ \E i \in 1..Len(m_catchInfo) :
           m_catchInfo[i].m_tryCatchBlockDepth = Len(m_blockInfo)
    /\ \/ m_shouldContinueToGenerateByteCode
       \/ m_resumeGenerateByteCodeAfterNBlockEnd = 1

\* C36: every catch record handed to the function when a try block ends
\* restores the initial stack size plus the widths of the entries of the
\* block's entry snapshot, whatever the shadow stack holds at the `end`; the
\* `end` of a try block with catch records hands its records over and reads
\* no entry the shadow stack does not have.
CatchRestoresSnapshotSize ==
    /\ [][HarvestsCatchRecords
             => \A j \in (Len(m_functionCatchInfo) + 1)..Len(m_functionCatchInfo') :
                    m_functionCatchInfo'[j].m_stackSizeToBe
                        = m_initialFunctionStackSize
                              + sizeOfEntries(Last(m_blockInfo).m_vmStack, 1)]_vars
    /\ [][EndsTryWithCatch => HarvestsCatchRecords]_vars

\* ------------------------------------------------ the work list of the ranges
\* A function with one parameter and one declared local, for bodies with a
\* jump record in front of every other record.
WorklistFunctions == {FunctionType(<<"I32">>, <<>>, <<"I32">>)}

InitWorklist == \E f \in WorklistFunctions : InitFunction(f, MaxBodyWorklist)

NextWorklist ==
    \/ Room("local.get", WorklistThrice) /\ \E k \in 0..1 : LocalGet(k)
    \/ Room("local.set", WorklistOnce) /\ \E k \in 0..1 : LocalSet(k)
    \/ Room("i32.eqz", WorklistOnce) /\ I32Eqz
    \/ Room("drop", WorklistOnce) /\ Drop
    \/ Room("if", WorklistOnce) /\ If(SigVoid)
    \/ EndExpr
    \/ OnEndPreprocess
    \/ EndFunctionBody

SpecWorklist == InitWorklist /\ [][NextWorklist]_vars

\* C37: the work list of the allocator's range finding comes to an end for
\* every function: every position pushed on it is below the position that
\* was popped, wherever the jump records of the body lie.
WorklistDescends ==
    [][(pass = "emit" /\ pass' = "done" /\ fn.local # <<>>)
          => /\ outcome' # "optimizeLocals does not terminate"
             /\ \A k \in DOMAIN Collected :
                    ~walkRange(Collected[k], collectLabels(byteCode)).grew]_vars

\* ------------------------------------------- catch records and the init code
\* A function with declared locals, for bodies with a try block and a read
\* of a local that no write precedes.
ShiftFunctions == {FunctionType(<<"I32">>, <<>>, <<"I32", "I32">>)}

InitShift == \E f \in ShiftFunctions : InitFunction(f, MaxBodyShift)

NextShift ==
    \/ Room("try", ShiftOnce) /\ Try(SigVoid)
    \/ Room("catch_all", ShiftOnce) /\ CatchAll
    \/ Room("local.get", ShiftOnce) /\ \E k \in 0..2 : LocalGet(k)
    \/ Room("i32.eqz", ShiftOnce) /\ I32Eqz
    \/ Room("drop", ShiftOnce) /\ Drop
    \/ EndExpr
    \/ OnEndPreprocess
    \/ EndFunctionBody

SpecShift == InitShift /\ [][NextShift]_vars

\* The bytes the allocator put in front of the body.
BytesPrepended == sizeofByteCode * (Len(byteCode') - Len(byteCode))

\* C38: the catch records of a function designate the same records of the
\* bytecode behind the allocator as before it: when the allocator puts init
\* code in front of the body, the start and the end of the try range and the
\* entry of the catch arm are shifted by the bytes put in front.
CatchRecordsFollowInitCode ==
    [][AllocatorRuns
          => /\ Len(m_functionCatchInfo') = Len(m_functionCatchInfo)
             /\ \A j \in 1..Len(m_functionCatchInfo) :
                    /\ m_functionCatchInfo'[j].m_tryStart
                           = m_functionCatchInfo[j].m_tryStart + BytesPrepended
                    /\ m_functionCatchInfo'[j].m_tryEnd
                           = m_functionCatchInfo[j].m_tryEnd + BytesPrepended
                    /\ m_functionCatchInfo'[j].m_catchStart
                           = m_functionCatchInfo[j].m_catchStart + BytesPrepended]_vars

\* ------------------------------------------- usage intervals and back-links
\* The open usage intervals of the local with index k.
OpenIntervals(k) ==
    {u \in 1..Len(m_localVariableInfo[k + 1].m_usageInfo) :
        m_localVariableInfo[k + 1].m_usageInfo[u].m_endPosition = SIZE_MAX}

\* The entries of the shadow stack that carry the back-link of local k.
BackLinks(k) == {i \in 1..Len(m_vmStack) : m_vmStack[i].localIndex = k}

\* C39: throughout the preprocess pass every local has as many open usage
\* intervals as the shadow stack has entries with its back-link, and no pop
\* of such an entry looks for an open interval in vain, also behind a
\* restore of the stack from the snapshot of a block.
OpenIntervalsMatchBackLinks ==
    /\ outcome # "no open usage interval"
    /\ (pass = "preprocess" /\ outcome = "")
           => \A k \in 0..(Len(m_localVariableInfo) - 1) :
                  Cardinality(OpenIntervals(k)) = Cardinality(BackLinks(k))

\* ------------------------------------------------ the truncation of the pool
\* The step counts a constant in the preprocess pass.
CountsConstant ==
    /\ pass = "preprocess"
    /\ pass' = pass
    /\ outcome' = ""
    /\ InstrRead.op = "i32.const"

\* The pool with the constant of the step counted, before any truncation.
Counted ==
    LET found == {i \in 1..Len(m_constantData) :
                     /\ m_constantData[i].value = InstrRead.a
                     /\ m_constantData[i].type = "I32"}
    IN IF found # {}
       THEN [i \in 1..Len(m_constantData) |->
                IF i \in found THEN [m_constantData[i] EXCEPT !.count = @ + 1]
                ELSE m_constantData[i]]
       ELSE Append(m_constantData,
                   [value |-> InstrRead.a, type |-> "I32", count |-> 1, position |-> 0])

\* The step takes entries out of the pool.
TruncatesPool == CountsConstant /\ m_constantData' # Counted

\* The place of an entry of the pool behind the step in the counted pool.
PlaceInCounted(i) ==
    CHOOSE j \in 1..Len(Counted) : Counted[j] = m_constantData'[i]

\* The pool behind the step is the counted pool sorted by descending count,
\* entries of equal count in their former order, cut to the first K.
KeepsHighestCounts ==
    /\ Len(m_constantData') = maxConstantData
    /\ \A i \in 1..Len(m_constantData') : \E j \in 1..Len(Counted) :
           Counted[j] = m_constantData'[i]
    /\ \A i, k \in 1..Len(m_constantData') :
           i < k => \/ m_constantData'[i].count > m_constantData'[k].count
                    \/ /\ m_constantData'[i].count = m_constantData'[k].count
                       /\ PlaceInCounted(i) < PlaceInCounted(k)
    /\ \A j \in 1..Len(Counted) :
           (\A i \in 1..Len(m_constantData') : m_constantData'[i] # Counted[j])
               => \A i \in 1..Len(m_constantData') :
                      m_constantData'[i].count >= Counted[j].count

====
